---- MODULE Spec2Model ----
(***************************************************************************)
(* State-machine model of the Paradex connectivity and position-risk code  *)
(* of flash-scalper:                                                       *)
(*   - ParadexRestClient (JWT)   src/src/services/paradex/rest-client.ts   *)
(*   - ParadexRestClient (HMAC)  src/src/services/execution/               *)
(*                               paradex-kline-builder.ts (lines 279-662)  *)
(*   - ParadexTradingAgent       src/unnamed/part_002                      *)
(*   - ParadexWebSocketClient    src/src/services/paradex/                 *)
(*                               websocket-client.ts                       *)
(*   - ParadexKlineBuilder       src/src/services/execution/               *)
(*                               paradex-kline-builder.ts (lines 41-212)   *)
(*   - ParadexWebSocketClient    src/unnamed/part_003 (lines 77-434), the  *)
(*     of the execution service  variable exec                             *)
(* Each component has its own specification (SpecRest, SpecHmac,           *)
(* SpecAgent, SpecWs, SpecKline, SpecExec); a specification leaves the     *)
(* variables of the other components unchanged. SpecExit is SpecAgent      *)
(* started with a configuration whose exit thresholds overlap, SpecStop    *)
(* is SpecAgent with stop(), SpecRestLive is SpecRest with the fairness    *)
(* of the event loop, SpecPing is SpecWs of a client without credential    *)
(* with its heartbeat, SpecSubs the same with concurrent subscribe(),      *)
(* SpecStart is the agent from its construction with start() and stop(),   *)
(* SpecQuery is SpecKline with the read methods of the builder.            *)
(*                                                                         *)
(* JavaScript runs handlers to completion: an action of the model is the   *)
(* code between two suspension points (await, timer, socket event).        *)
(***************************************************************************)
EXTENDS Integers, Sequences, FiniteSets, Bags, TLC

(***************************************************************************)
(* Bounds of the model.                                                    *)
(***************************************************************************)
\* concurrent invocations of request() of one client
MaxCalls == 2
\* position notifications of the exchange the agent has not handled yet
MaxInbox == 1
\* close orders the agent gets accepted
MaxTrades == 1
\* requests of the agent the network leaves without a response
MaxFailures == 1
\* pending promises of authenticate/subscribe of the WebSocket client
MaxWaiters == 1
\* the same where the callers of subscribe() do not wait for one another
MaxPending == 2
\* pending reconnect timers of the WebSocket client
MaxTimers == 2
\* the same for the WebSocket client of the execution service
MaxExecTimers == 2
\* sockets of that client that a later connect() has replaced
MaxOrphans == 1
\* the largest limit getKlines is called with
MaxLimit == 2
\* clock ticks the model lets pass
MaxTicks == 1
\* trades the kline builder is given
MaxTape == 4
\* the largest maxKlines a kline builder is constructed with
MaxMaxKlines == 2

(***************************************************************************)
(* Program constants.                                                      *)
(***************************************************************************)
\* rest-client.ts:93  retries: number = 3
Retries == 3
\* rest-client.ts:46  Date.now() < this.jwtExpiry - 60000
RefreshSkew == 60000

\* paradex-kline-builder.ts:306  retries: number = 3
HmacRetries == 3

\* websocket-client.ts:33  maxReconnectAttempts: number = 10
maxReconnectAttempts == 10

\* websocket-client.ts:34  reconnectDelay: number = 5000
reconnectDelay == 5000

\* websocket-client.ts:149  Math.min(..., 60000)
reconnectCap == 60000

\* part_003:82  maxReconnectAttempts: number = 10
execMaxReconnectAttempts == 10

\* part_003:83  reconnectDelay: number = 1000
execReconnectDelay == 1000

\* milliseconds per clock tick: the clock advances by the refresh skew
TimeStep == RefreshSkew

VARIABLES
  \* ---- JWT REST client (rest-client.ts) ----
  now,          \* Date.now()
  jwtToken,     \* this.jwtToken: "none" = undefined
  jwtExpiry,    \* this.jwtExpiry: 0 = undefined
  calls,        \* bag of the invocations of request() in progress
  \* ---- HMAC REST client (paradex-kline-builder.ts, lines 279-662) ----
  hcalls,       \* bag of the invocations of its request() in progress
  \* ---- trading agent (part_002) and the exchange it talks to ----
  config,       \* this.state.config (ScalperConfig)
  positions,    \* this.state.positions: market -> Position or NoPosition
  stats,        \* totalTrades, winningTrades, dailyPnL, totalPnL
  emits,        \* the position events the agent has emitted in the latest step
  opening,      \* the side of the positions the account opens in this run
  exch,         \* the exchange's position per market
  inbox,        \* position notifications sent by the exchange, not yet handled
  failures,     \* requests of the agent that got no response so far
  status,       \* this.state.status
  life,         \* isInitialized, the two interval timers, start() in progress
  \* ---- WebSocket client (services/paradex/websocket-client.ts) ----
  jwt,                \* this.jwt is set
  ws,                 \* this.ws: "null", a live socket, or a "closed" one
  sockets,            \* the WebSocket objects whose 'close' is still to come
  reconnectAttempts,  \* this.reconnectAttempts
  reconnectTimers,    \* pending timers of scheduleReconnect
  subscriptions,      \* this.subscriptions
  isAuthenticated,    \* this.isAuthenticated
  isConnecting,       \* this.isConnecting
  pingInterval,       \* this.pingInterval is set
  waiters,            \* bag of the pending promises of authenticate/subscribe
  wsOut,              \* what the client has emitted or logged in the latest step
  \* ---- kline builder (paradex-kline-builder.ts, lines 41-212) ----
  klines,        \* this.klines: market -> the closed klines, oldest first
  currentKline,  \* this.currentKline: market -> Kline or NoKline
  intervalMs,    \* this.intervalMs
  maxKlines,     \* this.maxKlines
  tape,          \* the trades processTrade has been given since the last clear
  klineOut,      \* what the latest call of a method of the builder returned
  \* ---- execution-service WebSocket client (part_003, lines 76-431) ----
  exec           \* its fields, timers and listeners, and what it has emitted

restVars == <<now, jwtToken, jwtExpiry, calls>>

hmacVars == <<hcalls>>

agentVars ==
  <<config, positions, stats, emits, opening, exch, inbox, failures, status,
    life>>

\* what the actions of one component leave unchanged
agentState ==
  <<config, positions, stats, opening, exch, inbox, failures, status, life>>

wsVars ==
  <<jwt, ws, sockets, reconnectAttempts, reconnectTimers, subscriptions,
    isAuthenticated, isConnecting, pingInterval, waiters, wsOut>>

klineVars == <<klines, currentKline, intervalMs, maxKlines, tape, klineOut>>

notRest == <<hcalls, agentState, wsVars, klineVars, exec>>
notHmac ==
  <<now, jwtToken, jwtExpiry, calls, agentState, wsVars, klineVars, exec>>
notAgent ==
  <<jwtToken, jwtExpiry, hcalls, opening, status, life, wsVars, klineVars,
    exec>>
notWs == <<now, jwtToken, jwtExpiry, calls, hcalls, agentVars, klineVars, exec>>
notKline == <<now, jwtToken, jwtExpiry, calls, hcalls, agentVars, wsVars, exec>>
notExec ==
  <<now, jwtToken, jwtExpiry, calls, hcalls, agentVars, wsVars, klineVars>>

\* the network fails a request of the agent, or not
Fails(outcome) ==
  IF outcome = "network"
    THEN failures < MaxFailures /\ failures' = failures + 1
    ELSE UNCHANGED failures

vars ==
  <<now, jwtToken, jwtExpiry, calls, hcalls, agentVars, wsVars, klineVars, exec>>

\* a bag with one more, one less copy of r
Put(B, r) == B (+) SetToBag({r})
Take(B, r) == B (-) SetToBag({r})

\* how many elements of the bag B are in the set S
RECURSIVE Copies(_, _)
Copies(B, S) ==
  IF S = {} THEN 0
  ELSE LET r == CHOOSE x \in S : TRUE
       IN CopiesIn(r, B) + Copies(B, S \ {r})

(***************************************************************************)
(* JWT REST client: ParadexRestClient of rest-client.ts                    *)
(***************************************************************************)
\* request() treats every method alike but for where the parameters go; a
\* DELETE (cancelOrder) takes the path of a POST without a body
Methods == {"GET", "POST"}

\* expires_at of a token issued at time t: the exchange chooses the lifetime
TokenLifetimes == {TimeStep, 2 * TimeStep}

\* What one fetch() can do: resolve with an ok response, resolve with a
\* non-ok response (of status 4xx: "http_error", of status 5xx:
\* "server_error"), reject (no response), or resolve with a body that
\* response.json() cannot parse.
FetchOutcomes == {"ok", "http_error", "server_error", "network", "bad_json"}

\* The same for the refresh request; an unparsable body makes getJWT throw
\* as a non-ok response does.
JwtOutcomes == {"ok", "http_error", "network"}

\* One invocation of request(). pc: where it is suspended; attempt: its loop
\* variable; rAttempt: the loop variable of the refresh request (POST
\* /auth/jwt) that getJWT has in progress for it; result: what it returned
\* (the kinds differ in the error text); owner: who awaits it; filled:
\* the exchange has executed the order now on the wire.
NewCall(method, authenticated, owner) ==
  [pc |-> "start", method |-> method, authenticated |-> authenticated,
   attempt |-> 0, rAttempt |-> 0, result |-> "none", owner |-> owner,
   filled |-> FALSE]

\* a caller of the public methods from outside the agent
ApiOwner == [kind |-> "api"]

\* getJWT, line 46: the cached token is returned without a refresh
JwtCacheValid ==
  jwtToken # "none" /\ jwtExpiry # 0 /\ now < jwtExpiry - RefreshSkew

\* What the runtime and the exchange put into a failure: the message of the
\* error fetch rejects with, the status and the body of a non-ok response.
FetchMessages == {"fetch failed", "Failed to fetch"}
ClientErrors == {400, 404}
ServerErrors == {500, 503}
Bodies == {"", "fetch failed", "Failed to obtain JWT token"}
Details ==
  [message : FetchMessages, status4xx : ClientErrors,
   status5xx : ServerErrors, text : Bodies]

\* ErrorMessage with the error of the refresh request passed on by getJWT
\* in the place of its own message (line 72)
ErrorMessagePassedOn(result, detail) ==
  CASE result \in {"network", "auth"} -> <<detail.message>>
    [] result = "http" -> <<"HTTP ", detail.status4xx, ": ", detail.text>>
    [] result = "server" -> <<"HTTP ", detail.status5xx, ": ", detail.text>>

\* The error text of a failure result, as the parts it is put together
\* from: error.message of the rejection of fetch (line 130), `HTTP
\* ${response.status}: ${errorText}` (line 156), the message of the error
\* getJWT throws (line 72, returned by line 130).
ErrorMessage(result, detail) ==
  CASE result = "network" -> <<detail.message>>
    [] result = "http" -> <<"HTTP ", detail.status4xx, ": ", detail.text>>
    [] result = "server" -> <<"HTTP ", detail.status5xx, ": ", detail.text>>
    [] result = "auth" -> <<"Failed to obtain JWT token">>

\* the ParadexAPIResponse of a call that has failed (lines 128-132, 154-159)
ApiResponse(r, detail) ==
  [success |-> FALSE, error |-> ErrorMessage(r.result, detail)]

\* request() returns
Return(r, result) ==
  [r EXCEPT !.pc = "done", !.result = result, !.attempt = 0, !.rAttempt = 0,
            !.filled = FALSE]

\* request()'s catch block (lines 126-137): the failure is returned on the
\* last attempt, otherwise the loop waits before its next iteration
CatchOrBackoff(r, kind) ==
  IF r.attempt = Retries
    THEN Return(r, kind)
    ELSE [r EXCEPT !.pc = "backoff", !.rAttempt = 0]

\* One iteration of request()'s loop up to its first suspension (lines
\* 97-125): with a valid cached token (or no authentication) fetch is
\* called; otherwise getJWT sends the refresh request POST /auth/jwt.
AttemptStart(r) ==
  IF r.authenticated /\ ~JwtCacheValid
    THEN [r EXCEPT !.pc = "jwt_fetch", !.rAttempt = 0]
    ELSE [r EXCEPT !.pc = "fetch", !.filled = FALSE]

\* request(method, endpoint, body, authenticated) is invoked
Request(method, authenticated, owner) ==
  /\ BagCardinality(calls) < MaxCalls
  /\ calls' = Put(calls, AttemptStart(NewCall(method, authenticated, owner)))
  /\ emits' = << >>
  /\ UNCHANGED <<now, jwtToken, jwtExpiry, notRest>>

\* the waiting request goes on to fetch whatever the refresh request has
\* come to: getJWT without its throw (line 72)
AfterJwtFetchNoThrow(r, outcome) ==
  IF outcome = "network" /\ r.rAttempt # Retries
    THEN [r EXCEPT !.pc = "jwt_backoff"]
    ELSE [r EXCEPT !.pc = "fetch", !.rAttempt = 0, !.filled = FALSE]

\* the waiting request after the refresh request of getJWT has completed:
\* lines 66-70 and 106-125 on success; on a non-ok response or an
\* unparsable body getJWT throws (line 72) into request()'s catch; with no
\* response the refresh request's own loop retries (retries = 3)
AfterJwtFetch(r, outcome) ==
  CASE outcome = "ok" ->
         [r EXCEPT !.pc = "fetch", !.rAttempt = 0, !.filled = FALSE]
    [] outcome = "http_error" -> CatchOrBackoff(r, "auth")
    [] outcome = "network" ->
         IF r.rAttempt = Retries
           THEN CatchOrBackoff(r, "auth")
           ELSE [r EXCEPT !.pc = "jwt_backoff"]

\* the refresh request of getJWT (lines 55-64) completes
JwtFetchResult(r, outcome) ==
  /\ BagIn(r, calls)
  /\ r.pc = "jwt_fetch"
  /\ calls' = Put(Take(calls, r), AfterJwtFetch(r, outcome))
  /\ IF outcome = "ok"
       THEN /\ jwtToken' = "jwt"
            /\ \E lifetime \in TokenLifetimes : jwtExpiry' = now + lifetime
       ELSE UNCHANGED <<jwtToken, jwtExpiry>>
  /\ emits' = << >>
  /\ UNCHANGED <<now, notRest>>

\* line 136 in the refresh request: the wait is over, the refresh is re-sent
JwtBackoffElapsed(r) ==
  /\ BagIn(r, calls)
  /\ r.pc = "jwt_backoff"
  /\ calls' = Put(Take(calls, r),
                  [r EXCEPT !.pc = "jwt_fetch", !.rAttempt = @ + 1])
  /\ emits' = << >>
  /\ UNCHANGED <<now, jwtToken, jwtExpiry, notRest>>

\* what request() does once fetch has resolved or rejected (lines 120-137
\* and handleResponse, lines 150-168)
AfterFetch(r, outcome) ==
  CASE outcome = "ok" -> Return(r, "success")
    [] outcome = "http_error" -> Return(r, "http")
    [] outcome = "server_error" -> Return(r, "server")
    [] outcome = "bad_json" ->
         \* response.json() rejects: the rejection of the returned promise
         \* is not caught by request()'s try block, the call throws
         Return(r, "threw")
    [] outcome = "network" -> CatchOrBackoff(r, "network")

\* fetch of a request made through the public API completes
FetchResult(r, outcome) ==
  /\ BagIn(r, calls)
  /\ r.pc = "fetch"
  /\ r.owner = ApiOwner
  /\ calls' = Put(Take(calls, r), AfterFetch(r, outcome))
  /\ emits' = << >>
  /\ UNCHANGED <<now, jwtToken, jwtExpiry, notRest>>

\* line 136: the wait is over, the loop runs its next iteration
BackoffElapsed(r) ==
  /\ BagIn(r, calls)
  /\ r.pc = "backoff"
  /\ calls' = Put(Take(calls, r), AttemptStart([r EXCEPT !.attempt = @ + 1]))
  /\ emits' = << >>
  /\ UNCHANGED <<now, jwtToken, jwtExpiry, notRest>>

\* the caller has taken the result of a call made through the public API
ApiReturn(r) ==
  /\ BagIn(r, calls)
  /\ r.pc = "done"
  /\ r.owner = ApiOwner
  /\ calls' = Take(calls, r)
  /\ emits' = << >>
  /\ UNCHANGED <<now, jwtToken, jwtExpiry, notRest>>

\* time passes
Tick ==
  /\ now < MaxTicks * TimeStep
  /\ now' = now + TimeStep
  /\ emits' = << >>
  /\ UNCHANGED <<jwtToken, jwtExpiry, calls, notRest>>

InitRest ==
  /\ now = 0
  /\ jwtToken = "none"
  /\ jwtExpiry = 0
  /\ calls = EmptyBag

\* the public methods: getAccount/getPositions/getOrder (GET, authenticated),
\* getTicker/getMarkets (GET, public), placeOrder (POST), cancelOrder (DELETE)
ApiCall ==
  \E m \in Methods, a \in BOOLEAN :
    /\ (m # "GET") => a
    /\ Request(m, a, ApiOwner)

NextRest ==
  \/ ApiCall
  \/ \E r \in BagToSet(calls), o \in JwtOutcomes : JwtFetchResult(r, o)
  \/ \E r \in BagToSet(calls) : JwtBackoffElapsed(r)
  \/ \E r \in BagToSet(calls), o \in FetchOutcomes : FetchResult(r, o)
  \/ \E r \in BagToSet(calls) : BackoffElapsed(r)
  \/ \E r \in BagToSet(calls) : ApiReturn(r)
  \/ Tick

(***************************************************************************)
(* HMAC REST client: ParadexRestClient of paradex-kline-builder.ts         *)
(***************************************************************************)
HmacMethods == {"GET", "POST", "DELETE"}

\* What one fetch() can do there: an ok response, a non-ok response, a
\* rejection "fetch failed" (no response), the abort of the 30 s timer
\* (line 336), an exception that is no network error, a body that
\* response.json() cannot parse.
HmacOutcomes == {"ok", "http_error", "network", "timeout", "other", "bad_json"}

\* One invocation of request(). last: how its previous attempt ended.
NewHmacCall(method) ==
  [pc |-> "fetch", method |-> method, attempt |-> 0, last |-> "none",
   result |-> "none"]

\* request() returns or throws
HmacReturn(r, result) ==
  [r EXCEPT !.pc = "done", !.result = result, !.attempt = 0]

\* lines 355-363 and 377-385: wait, then continue with the next attempt
HmacRetry(r, kind) ==
  [r EXCEPT !.pc = "backoff", !.last = kind]

\* what request() does once fetch has resolved or rejected (lines 338-389)
AfterHmacFetch(r, outcome) ==
  CASE outcome = "ok" -> HmacReturn(r, "success")
    [] outcome = "bad_json" ->
         \* line 369 returns the promise of response.json() unawaited
         HmacReturn(r, "threw")
    [] outcome = "http_error" ->
         \* lines 351-366: any non-ok response, whatever the method
         IF r.attempt < HmacRetries
           THEN HmacRetry(r, "http")
           ELSE HmacReturn(r, "http")
    [] outcome \in {"network", "timeout"} ->
         \* lines 373-385
         IF r.attempt < HmacRetries
           THEN HmacRetry(r, "network")
           ELSE HmacReturn(r, "network")
    [] outcome = "other" -> HmacReturn(r, "other")

\* request(method, endpoint, params) is invoked: lines 308-344 sign and send
HmacRequest(method) ==
  /\ BagCardinality(hcalls) < MaxCalls
  /\ hcalls' = Put(hcalls, NewHmacCall(method))
  /\ emits' = << >>
  /\ UNCHANGED notHmac

\* fetch completes
HmacFetchResult(r, outcome) ==
  /\ BagIn(r, hcalls)
  /\ r.pc = "fetch"
  /\ hcalls' = Put(Take(hcalls, r), AfterHmacFetch(r, outcome))
  /\ emits' = << >>
  /\ UNCHANGED notHmac

\* the wait of line 361 or 383 is over: the loop signs and sends again
HmacBackoffElapsed(r) ==
  /\ BagIn(r, hcalls)
  /\ r.pc = "backoff"
  /\ hcalls' = Put(Take(hcalls, r),
                   [r EXCEPT !.pc = "fetch", !.attempt = @ + 1])
  /\ emits' = << >>
  /\ UNCHANGED notHmac

\* the caller (getAccount, placeMarketOrder, cancelOrder, ...) has taken
\* the result
HmacApiReturn(r) ==
  /\ BagIn(r, hcalls)
  /\ r.pc = "done"
  /\ hcalls' = Take(hcalls, r)
  /\ emits' = << >>
  /\ UNCHANGED notHmac

InitHmac == hcalls = EmptyBag

NextHmac ==
  \/ \E m \in HmacMethods : HmacRequest(m)
  \/ \E r \in BagToSet(hcalls), o \in HmacOutcomes : HmacFetchResult(r, o)
  \/ \E r \in BagToSet(hcalls) : HmacBackoffElapsed(r)
  \/ \E r \in BagToSet(hcalls) : HmacApiReturn(r)


(***************************************************************************)
(* Trading agent: ParadexTradingAgent of part_002, after initialize()      *)
(***************************************************************************)
\* config.markets
Markets == {"BTC-USD-PERP"}

Sides == {"long", "short"}

\* last_price of a ticker, mark_price of a position snapshot
Prices == {8, 10, 12}

\* entry_price and size of the positions the exchange opens; leverage is 1,
\* so margin_used = entry_price * size
EntryPrices == {10}
Sizes == {1}

\* scalperConfig: ROE thresholds in percent, hold time in minutes
ScalperConfigs ==
  {[stopLossROE |-> -15, takeProfitROE |-> 15, maxHoldTimeMinutes |-> 1]}

\* a scalperConfig whose thresholds overlap: an ROE of 0 meets the stop
\* loss and the take profit
OverlappingConfigs ==
  {[stopLossROE |-> 0, takeProfitROE |-> 0, maxHoldTimeMinutes |-> 1]}

\* Map.get() of an absent key; null of convertPosition
NoPosition == [size |-> 0]

\* the exchange holds no position in a market
NoExch == [side |-> "long", size |-> 0, entry_price |-> 0, timestamp |-> 0]

\* (unrealizedPnl / marginUsed) * 100, lines 356 and 396
ROE(unrealizedPnl, marginUsed) == (unrealizedPnl * 100) \div marginUsed

Max(a, b) == IF a >= b THEN a ELSE b
Min(a, b) == IF a <= b THEN a ELSE b

\* the ParadexPosition the exchange reports for its position e of a market
ApiPosition(market, e, mark) ==
  [market |-> market, side |-> e.side, size |-> e.size,
   entry_price |-> e.entry_price, mark_price |-> mark,
   unrealized_pnl |-> IF e.side = "long"
                        THEN (mark - e.entry_price) * e.size
                        ELSE (e.entry_price - mark) * e.size,
   margin_used |-> e.entry_price * e.size, timestamp |-> e.timestamp]

\* the mark prices the exchange can report with its position e
MarkPrices(e) == IF e.size = 0 THEN {0} ELSE Prices

\* convertPosition without its check of the size (lines 343-346); the
\* ROE of a position without margin is left at 0
convertPositionOfAnySize(apiPos) ==
  LET unrealizedROE == IF apiPos.margin_used = 0 THEN 0
                       ELSE ROE(apiPos.unrealized_pnl, apiPos.margin_used)
  IN [symbol |-> apiPos.market,
      side |-> IF apiPos.side = "long" THEN "long" ELSE "short",
      size |-> apiPos.size,
      entryPrice |-> apiPos.entry_price,
      currentPrice |-> apiPos.mark_price,
      marginUsed |-> apiPos.margin_used,
      unrealizedPnl |-> apiPos.unrealized_pnl,
      unrealizedROE |-> unrealizedROE,
      highestROE |-> unrealizedROE,
      lowestROE |-> unrealizedROE,
      openedAt |-> apiPos.timestamp]

\* convertPosition, lines 342-376
convertPosition(apiPos) ==
  IF apiPos.size = 0 THEN NoPosition
  ELSE LET unrealizedROE == ROE(apiPos.unrealized_pnl, apiPos.margin_used)
       IN [symbol |-> apiPos.market,
           side |-> IF apiPos.side = "long" THEN "long" ELSE "short",
           size |-> apiPos.size,
           entryPrice |-> apiPos.entry_price,
           currentPrice |-> apiPos.mark_price,
           marginUsed |-> apiPos.margin_used,
           unrealizedPnl |-> apiPos.unrealized_pnl,
           unrealizedROE |-> unrealizedROE,
           highestROE |-> unrealizedROE,
           lowestROE |-> unrealizedROE,
           openedAt |-> apiPos.timestamp]

\* lines 388-401 without the update of highestROE and lowestROE (398-399)
updatePositionPricesNoExtremes(position, price) ==
  LET priceChange == IF position.side = "long"
                       THEN price - position.entryPrice
                       ELSE position.entryPrice - price
      unrealizedPnl == priceChange * position.size
  IN [position EXCEPT !.currentPrice = price,
                      !.unrealizedPnl = unrealizedPnl,
                      !.unrealizedROE = ROE(unrealizedPnl, position.marginUsed)]

\* updatePositionPrices, lines 388-401: the position after a ticker
updatePositionPrices(position, price) ==
  LET priceChange == IF position.side = "long"
                       THEN price - position.entryPrice
                       ELSE position.entryPrice - price
      unrealizedPnl == priceChange * position.size
      unrealizedROE == ROE(unrealizedPnl, position.marginUsed)
  IN [position EXCEPT !.currentPrice = price,
                      !.unrealizedPnl = unrealizedPnl,
                      !.unrealizedROE = unrealizedROE,
                      !.highestROE = Max(@, unrealizedROE),
                      !.lowestROE = Min(@, unrealizedROE)]

\* checkPositionExitConditions with the take profit check (lines 427-439)
\* ahead of the stop loss check (lines 413-425)
checkTakeProfitFirst(position) ==
  IF position.unrealizedROE >= config.takeProfitROE THEN "take_profit"
  ELSE IF position.unrealizedROE <= config.stopLossROE THEN "stop_loss"
  ELSE IF now - position.openedAt >= config.maxHoldTimeMinutes * 60000
         THEN "max_hold_time"
  ELSE "none"

\* checkPositionExitConditions, lines 410-456: the reason closePosition is
\* called with, "none" if it is not called
checkPositionExitConditions(position) ==
  IF position.unrealizedROE <= config.stopLossROE THEN "stop_loss"
  ELSE IF position.unrealizedROE >= config.takeProfitROE THEN "take_profit"
  ELSE IF now - position.openedAt >= config.maxHoldTimeMinutes * 60000
         THEN "max_hold_time"
  ELSE "none"

\* An invocation of closePosition(position, reason) awaiting placeMarketOrder
\* (line 476). It holds a reference to the Position object: attached tells
\* that this object is still the one in the map, and then its fields are
\* read there; once the map has dropped the object, position is the object
\* as it was left.
CloseOwner(position, reason) ==
  [kind |-> "close", market |-> position.symbol, reason |-> reason,
   side |-> IF position.side = "long" THEN "sell" ELSE "buy",
   size |-> position.size, attached |-> TRUE, position |-> NoPosition]

\* syncPositions awaiting getPositions (line 319)
SyncOwner == [kind |-> "sync"]

\* what closePosition reads of its Position object when it resumes (lines
\* 485-505)
Closing(position) ==
  [symbol |-> position.symbol, unrealizedPnl |-> position.unrealizedPnl,
   unrealizedROE |-> position.unrealizedROE]

\* the Position object an invocation of closePosition refers to
PositionOf(r) ==
  IF r.owner.attached THEN Closing(positions[r.owner.market])
                      ELSE r.owner.position

\* the calls after the map has dropped the Position objects of some markets
Detach(B, markets) ==
  LET F(r) == IF r.owner.kind = "close" /\ r.owner.market \in markets
                 /\ r.owner.attached
                THEN [r EXCEPT !.owner.attached = FALSE,
                               !.owner.position =
                                  Closing(positions[r.owner.market])]
                ELSE r
  IN BagOfAll(F, B)

\* handleTickerUpdate (lines 266-278) with updatePositionPrices,
\* checkPositionExitConditions and closePosition up to its await: the
\* reduce-only market order goes out through request('POST', '/orders').
\* (The ticker is passed on as a 'ticker' event, which is no position event.)
handleTickerUpdate(market, price) ==
  /\ emits' = << >>
  /\ IF positions[market] = NoPosition
       THEN UNCHANGED <<positions, calls>>
       ELSE LET position == updatePositionPrices(positions[market], price)
                reason == checkPositionExitConditions(position)
            IN /\ positions' = [positions EXCEPT ![market] = position]
               /\ IF reason = "none"
                    THEN UNCHANGED calls
                    ELSE /\ BagCardinality(calls) < MaxCalls
                         /\ calls' = Put(calls, AttemptStart(
                              NewCall("POST", TRUE,
                                      CloseOwner(position, reason))))
  /\ UNCHANGED <<now, config, stats, exch, inbox, failures, notAgent>>

\* handlePositionUpdate that leaves the position of a size-0 notification
\* in the map while a close of it is in flight
handlePositionUpdateUnlessClosing(mark) ==
  /\ inbox # <<>>
  /\ mark \in MarkPrices(Head(inbox).e)
  /\ LET apiPosition == ApiPosition(Head(inbox).market, Head(inbox).e, mark)
         position == convertPosition(apiPosition)
         closing == \E r \in BagToSet(calls) :
                      /\ r.owner.kind = "close"
                      /\ r.owner.market = apiPosition.market
                      /\ r.owner.attached
     IN IF position = NoPosition /\ closing
          THEN /\ emits' = << >>
               /\ UNCHANGED <<positions, calls>>
          ELSE /\ positions' = [positions EXCEPT ![apiPosition.market] = position]
               /\ calls' = Detach(calls, {apiPosition.market})
               /\ emits' = IF position # NoPosition
                             THEN <<[event |-> "position_update",
                                     market |-> apiPosition.market]>>
                             ELSE <<[event |-> "position_closed",
                                     market |-> apiPosition.market,
                                     reason |-> "none"]>>
  /\ inbox' = Tail(inbox)
  /\ UNCHANGED <<now, config, stats, exch, failures, notAgent>>

\* handlePositionUpdate, lines 283-297, for the next notification of the
\* 'positions' channel
handlePositionUpdate(mark) ==
  /\ inbox # <<>>
  /\ mark \in MarkPrices(Head(inbox).e)
  /\ LET apiPosition == ApiPosition(Head(inbox).market, Head(inbox).e, mark)
         position == convertPosition(apiPosition)
     IN /\ positions' = [positions EXCEPT ![apiPosition.market] = position]
        /\ calls' = Detach(calls, {apiPosition.market})
        /\ emits' = IF position # NoPosition
                      THEN <<[event |-> "position_update",
                              market |-> apiPosition.market]>>
                      ELSE <<[event |-> "position_closed",
                              market |-> apiPosition.market,
                              reason |-> "none"]>>
  /\ inbox' = Tail(inbox)
  /\ UNCHANGED <<now, config, stats, exch, failures, notAgent>>

\* closePosition resumes (lines 483-518) when the request of its order has
\* come to an end; while request() retries, it stays suspended
closePosition(r, outcome) ==
  /\ BagIn(r, calls)
  /\ r.pc = "fetch"
  /\ r.owner.kind = "close"
  /\ (outcome = "http_error") => ~r.filled
  /\ Fails(outcome)
  /\ LET after == AfterFetch(r, outcome)
         position == PositionOf(r)
     IN IF after.pc # "done"
          THEN /\ calls' = Put(Take(calls, r), after)
               /\ emits' = << >>
               /\ UNCHANGED <<positions, stats>>
          ELSE IF after.result = "success"
            THEN /\ stats.totalTrades < MaxTrades
                 /\ stats' = [totalTrades |-> stats.totalTrades + 1,
                              dailyPnL |-> stats.dailyPnL + position.unrealizedPnl,
                              totalPnL |-> stats.totalPnL + position.unrealizedPnl,
                              winningTrades |->
                                IF position.unrealizedPnl > 0
                                  THEN stats.winningTrades + 1
                                  ELSE stats.winningTrades]
                 /\ positions' = [positions EXCEPT ![position.symbol] = NoPosition]
                 /\ calls' = Detach(Take(calls, r), {position.symbol})
                 /\ emits' = <<[event |-> "position_closed",
                                market |-> position.symbol,
                                reason |-> r.owner.reason,
                                pnl |-> position.unrealizedPnl,
                                roe |-> position.unrealizedROE]>>
            ELSE /\ calls' = Take(calls, r)
                 /\ emits' = << >>
                 /\ UNCHANGED <<positions, stats>>
  /\ UNCHANGED <<now, config, exch, inbox, notAgent>>

\* syncPositions is called (line 317): getPositions goes out
syncPositions ==
  Request("GET", TRUE, SyncOwner)

\* syncPositions resumes (lines 321-336) with the positions the exchange
\* holds when it answers; the log line of a successful answer (line 326) is
\* recorded in emits
syncPositionsResumes(r, outcome, marks) ==
  /\ BagIn(r, calls)
  /\ r.pc = "fetch"
  /\ r.owner = SyncOwner
  /\ Fails(outcome)
  /\ \A m \in Markets :
       marks[m] \in (IF outcome = "ok" THEN MarkPrices(exch[m]) ELSE {0})
  /\ LET after == AfterFetch(r, outcome)
         held == {m \in Markets : exch[m].size # 0}
     IN IF after.pc # "done"
          THEN /\ calls' = Put(Take(calls, r), after)
               /\ emits' = << >>
               /\ UNCHANGED positions
          ELSE IF after.result = "success"
            THEN /\ positions' =
                      [m \in Markets |->
                         IF m \in held
                           THEN convertPosition(ApiPosition(m, exch[m], marks[m]))
                           ELSE positions[m]]
                 /\ calls' = Detach(Take(calls, r), held)
                 /\ emits' = <<[event |-> "Syncing positions from exchange"]>>
            ELSE /\ calls' = Take(calls, r)
                 /\ emits' = << >>
                 /\ UNCHANGED positions
  /\ UNCHANGED <<now, config, stats, exch, inbox, notAgent>>

(***************************************************************************)
(* The exchange                                                            *)
(***************************************************************************)
\* the exchange notifies the 'positions' channel of its position in a market
Notified(q, market, e) == Append(q, [market |-> market, e |-> e])

\* a position is opened on the account
ExchangeOpens(market, side, entry, size) ==
  /\ side = opening
  /\ exch[market].size = 0
  /\ Len(inbox) < MaxInbox
  /\ LET e == [side |-> side, size |-> size, entry_price |-> entry,
               timestamp |-> now]
     IN /\ exch' = [exch EXCEPT ![market] = e]
        /\ inbox' = Notified(inbox, market, e)
  /\ emits' = << >>
  /\ UNCHANGED <<now, calls, config, positions, stats, failures, notAgent>>

\* a position is closed by something other than an order of the agent
ExchangeCloses(market) ==
  /\ exch[market].size # 0
  /\ Len(inbox) < MaxInbox
  /\ exch' = [exch EXCEPT ![market] = NoExch]
  /\ inbox' = Notified(inbox, market, NoExch)
  /\ emits' = << >>
  /\ UNCHANGED <<now, calls, config, positions, stats, failures, notAgent>>

\* the exchange repeats the notification of a position it holds
ExchangeNotifies(market) ==
  /\ exch[market].size # 0
  /\ Len(inbox) < MaxInbox
  /\ inbox' = Notified(inbox, market, exch[market])
  /\ emits' = << >>
  /\ UNCHANGED <<now, calls, config, positions, stats, exch, failures, notAgent>>

\* The exchange executes the close order that is on the wire: a reduce-only
\* order is filled against the position it reduces. (An order that is not
\* executed is answered with an acceptance or a rejection all the same.)
ExchangeFills(r) ==
  /\ BagIn(r, calls)
  /\ r.pc = "fetch"
  /\ r.owner.kind = "close"
  /\ ~r.filled
  /\ Len(inbox) < MaxInbox
  /\ LET e == exch[r.owner.market]
         left == e.size - Min(e.size, r.owner.size)
         after == IF left = 0 THEN NoExch ELSE [e EXCEPT !.size = left]
     IN /\ e.size # 0
        /\ e.side = (IF r.owner.side = "sell" THEN "long" ELSE "short")
        /\ exch' = [exch EXCEPT ![r.owner.market] = after]
        /\ inbox' = Notified(inbox, r.owner.market, after)
  /\ calls' = Put(Take(calls, r), [r EXCEPT !.filled = TRUE])
  /\ emits' = << >>
  /\ UNCHANGED <<now, config, positions, stats, failures, notAgent>>

\* the state of the agent and the exchange before the agent is used
NoPositionsYet ==
  /\ positions = [m \in Markets |-> NoPosition]
  /\ stats = [totalTrades |-> 0, winningTrades |-> 0, dailyPnL |-> 0,
              totalPnL |-> 0]
  /\ emits = << >>
  /\ exch = [m \in Markets |-> NoExch]
  /\ inbox = << >>
  /\ failures = 0
  /\ status = "running"
  /\ life = [isInitialized |-> TRUE, tickInterval |-> FALSE,
             scanInterval |-> FALSE, pc |-> "idle"]

\* the agent as its constructor leaves it (lines 78-108): status
\* 'starting', not initialized, no interval set; life.pc is "initialize"
\* while start() awaits initialize()
JustConstructed ==
  /\ positions = [m \in Markets |-> NoPosition]
  /\ stats = [totalTrades |-> 0, winningTrades |-> 0, dailyPnL |-> 0,
              totalPnL |-> 0]
  /\ emits = << >>
  /\ exch = [m \in Markets |-> NoExch]
  /\ inbox = << >>
  /\ failures = 0
  /\ status = "starting"
  /\ life = [isInitialized |-> FALSE, tickInterval |-> FALSE,
             scanInterval |-> FALSE, pc |-> "idle"]

IdleAgent ==
  /\ config \in ScalperConfigs
  /\ NoPositionsYet

\* stop(), lines 679-701: the status is set, the two intervals are cleared
\* and wsClient.disconnect() releases the connection, all in one run; no
\* invocation of closePosition is awaited
stop ==
  /\ status' = "stopped"
  /\ life' = [life EXCEPT !.tickInterval = FALSE, !.scanInterval = FALSE]
  /\ emits' = << >>
  /\ UNCHANGED <<now, jwtToken, jwtExpiry, calls, hcalls, config, positions,
                 stats, opening, exch, inbox, failures, wsVars, klineVars,
                 exec>>

\* what start() and initialize() leave unchanged
notLife ==
  <<now, jwtToken, jwtExpiry, calls, hcalls, config, positions, stats,
    opening, exch, inbox, failures, wsVars, klineVars, exec>>

\* start() is called (lines 650-674). An agent that is not initialized
\* awaits initialize() first; an agent whose status is 'running' returns;
\* otherwise the status is set, the two intervals are started and
\* 'started' is emitted.
start ==
  /\ life.pc = "idle"
  /\ IF ~life.isInitialized
       THEN /\ life' = [life EXCEPT !.pc = "initialize"]
            /\ emits' = << >>
            /\ UNCHANGED status
       ELSE IF status = "running"
         THEN /\ emits' = << >>
              /\ UNCHANGED <<status, life>>
         ELSE /\ status' = "running"
              /\ life' = [life EXCEPT !.tickInterval = TRUE,
                                      !.scanInterval = TRUE]
              /\ emits' = <<[event |-> "started"]>>
  /\ UNCHANGED notLife

\* initialize() (lines 117-170) comes to its end and start() resumes (line
\* 655). Its requests succeed: isInitialized and the status 'running' are
\* set and 'initialized' is emitted (lines 160-164), and start() goes on
\* with the status check of line 655. One of them fails: the status is
\* 'error' and start() rejects (lines 165-169). The account holds no
\* position before the agent is initialized, so syncPositions (line 155)
\* finds none.
initializeSettles(ok) ==
  /\ life.pc = "initialize"
  /\ IF ok
       THEN /\ status' = "running"
            /\ life' = [life EXCEPT !.isInitialized = TRUE, !.pc = "idle"]
            /\ emits' = <<[event |-> "initialized"]>>
       ELSE /\ status' = "error"
            /\ life' = [life EXCEPT !.pc = "idle"]
            /\ emits' = << >>
  /\ UNCHANGED notLife

\* the socket of the agent is connected and subscribed: initialize() has
\* succeeded and stop() has not disconnected it
Delivering == life.isInitialized /\ status = "running"

\* the agent from its construction on, with the callers of start() and
\* stop() and the positions of the account
NextStart ==
  \/ start
  \/ \E ok \in BOOLEAN : initializeSettles(ok)
  \/ stop
  \/ Delivering /\ \E mark \in Prices \cup {0} : handlePositionUpdate(mark)
  \/ Delivering /\ \E m \in Markets, side \in Sides, entry \in EntryPrices,
                       size \in Sizes : ExchangeOpens(m, side, entry, size)
  \/ Delivering /\ \E m \in Markets : ExchangeCloses(m)
  \/ Delivering /\ \E m \in Markets : ExchangeNotifies(m)
  \/ Delivering /\ \E m \in Markets, price \in Prices :
                     handleTickerUpdate(m, price)

NextAgent ==
  \/ \E m \in Markets, price \in Prices : handleTickerUpdate(m, price)
  \/ \E mark \in Prices \cup {0} : handlePositionUpdate(mark)
  \/ \E r \in BagToSet(calls), o \in FetchOutcomes : closePosition(r, o)
  \/ syncPositions
  \/ \E r \in BagToSet(calls), o \in FetchOutcomes, marks \in [Markets -> Prices \cup {0}] :
       syncPositionsResumes(r, o, marks)
  \/ \E r \in BagToSet(calls) : BackoffElapsed(r)
  \/ \E m \in Markets, side \in Sides, entry \in EntryPrices, size \in Sizes :
       ExchangeOpens(m, side, entry, size)
  \/ \E m \in Markets : ExchangeCloses(m)
  \/ \E m \in Markets : ExchangeNotifies(m)
  \/ \E r \in BagToSet(calls) : ExchangeFills(r)
  \/ Tick

\* The started agent with its stop(), used by a caller that makes no call
\* of syncPositions of its own. The handlers of the agent do not consult
\* the status, and the socket that disconnect() closes delivers the
\* messages it has received until its close has completed.
NextStop ==
  \/ \E m \in Markets, price \in Prices : handleTickerUpdate(m, price)
  \/ \E mark \in Prices \cup {0} : handlePositionUpdate(mark)
  \/ \E r \in BagToSet(calls), o \in FetchOutcomes : closePosition(r, o)
  \/ \E r \in BagToSet(calls) : BackoffElapsed(r)
  \/ \E m \in Markets, side \in Sides, entry \in EntryPrices, size \in Sizes :
       ExchangeOpens(m, side, entry, size)
  \/ \E m \in Markets : ExchangeCloses(m)
  \/ \E m \in Markets : ExchangeNotifies(m)
  \/ \E r \in BagToSet(calls) : ExchangeFills(r)
  \/ Tick
  \/ stop

(***************************************************************************)
(* WebSocket client: ParadexWebSocketClient of websocket-client.ts         *)
(***************************************************************************)
\* WebSocket objects alive at a time
Slots == {"s1", "s2"}

\* A WebSocket object. state: "connecting", "open", "errored" ('error' has
\* been emitted, 'close' is to come), "closing" (close() was called on the
\* open socket); intent: close() was called on it by disconnect(); sent: the
\* subscription keys of the subscribe requests sent through it; late: the
\* requests sent through it whose 10 s timer has fired: the timer rejects
\* the promise and leaves the 'response' listener in place (lines 190-192,
\* 243-245), <<"auth">> for an auth request, the key for a subscribe;
\* probe: "sent" once a ping has gone through it that the peer has not
\* answered, "overdue" once that ping is older than the heartbeat timeout.
NoSocket ==
  [state |-> "none", intent |-> FALSE, sent |-> {}, late |-> {},
   probe |-> "none"]

NewSocket ==
  [state |-> "connecting", intent |-> FALSE, sent |-> {}, late |-> {},
   probe |-> "none"]

\* close codes: 1000 normal closure, 1006 abnormal closure
CloseCodes == {1000, 1006}

\* subscribe(), line 230
privateChannels == {"orders", "fills", "positions", "account"}

\* the channels the callers subscribe to
Subscribable ==
  {[channel |-> "positions", market |-> "none"],
   [channel |-> "ticker", market |-> "BTC-USD-PERP"]}

\* line 227: market ? `${channel}:${market}` : channel, as the parts that
\* the colon separates
subscriptionKey(channel, market) ==
  IF market = "none" THEN <<channel>> ELSE <<channel, market>>

\* line 301: const [channel, market] = sub.split(':')
split(sub) ==
  [channel |-> sub[1], market |-> IF Len(sub) > 1 THEN sub[2] ELSE "none"]

\* isConnected(), lines 166-168
isConnected == ws \in Slots /\ sockets[ws].state = "open"

\* A pending promise of authenticate() or subscribe(). who: "open" (the
\* open handler of a socket awaits it) or "api" (a caller of subscribe()
\* does); sock: the socket the request went through, "gone" once that has
\* closed; of: the socket whose open handler awaits; done: the entries of
\* this.subscriptions that the loop of resubscribe() has visited.
Waiter(who, what, key, of, done) ==
  [who |-> who, what |-> what, key |-> key, sock |-> ws, of |-> of,
   done |-> done]

\* log line of resubscribe()'s catch block (line 305)
ResubscribeFailed(keys) ==
  {[event |-> "Resubscribe failed", key |-> k] : k \in keys}

\* resubscribe(), lines 293-308, from the entries not yet visited up to its
\* next suspension: subscribe() throws for an entry when the client is not
\* connected or the channel is private and the client is not authenticated
\* (caught, line 304); otherwise the subscribe request is sent and awaited.
\* The loop ends when no entry is left. Entries are visited in the order
\* of the Set, which is any order here.
resubscribe(of, done, subs, connected, authenticated) ==
  LET rest == subs \ done
      sendable == {k \in rest :
                     /\ connected
                     /\ split(k).channel \in privateChannels => authenticated}
  IN IF sendable = {}
       THEN {[end |-> TRUE, failed |-> rest]}
       ELSE {[end |-> FALSE, failed |-> U,
              waiter |-> Waiter("open", "subscribe", k, of, done \cup U \cup {k})] :
               k \in sendable, U \in SUBSET (rest \ sendable)}

\* the open handler goes from one suspension to the next, or ends with
\* emit('connected') and resolve() (lines 91-94)
OpenHandlerGoesOn(out, of, others, socks, logged) ==
  /\ waiters' = IF out.end THEN others ELSE Put(others, out.waiter)
  /\ sockets' = IF out.end THEN socks
                ELSE [socks EXCEPT ![ws].sent = @ \cup {out.waiter.key}]
  /\ wsOut' = logged \cup ResubscribeFailed(out.failed)
                \cup (IF out.end THEN {[event |-> "connected", sock |-> of]}
                      ELSE {})

\* connect(), lines 59-75: returns when connected or connecting, otherwise
\* creates the WebSocket
connect ==
  IF isConnected \/ isConnecting
    THEN UNCHANGED <<ws, sockets, isConnecting>>
    ELSE /\ \E s \in Slots : sockets[s] = NoSocket
         /\ LET s == CHOOSE x \in Slots : sockets[x] = NoSocket
            IN /\ sockets' = [sockets EXCEPT ![s] = NewSocket]
               /\ ws' = s
         /\ isConnecting' = TRUE

\* connect() is called
ConnectCalled ==
  /\ connect
  /\ wsOut' = {}
  /\ UNCHANGED <<jwt, reconnectAttempts, reconnectTimers, subscriptions,
                 isAuthenticated, pingInterval, waiters, notWs>>

\* the timer of scheduleReconnect fires (lines 156-160)
ReconnectTimerFires ==
  /\ reconnectTimers > 0
  /\ reconnectTimers' = reconnectTimers - 1
  /\ connect
  /\ wsOut' = {}
  /\ UNCHANGED <<jwt, reconnectAttempts, subscriptions, isAuthenticated,
                 pingInterval, waiters, notWs>>

\* disconnect(), lines 134-142. close() on an open socket starts the closing
\* handshake; on a connecting socket it aborts the handshake.
disconnect ==
  /\ IF ws = "null"
       THEN UNCHANGED <<ws, sockets, isAuthenticated, subscriptions,
                        pingInterval, waiters>>
       ELSE /\ pingInterval' = FALSE
            /\ sockets' =
                 IF ws \in Slots /\ sockets[ws].state \in {"connecting", "open"}
                   THEN [sockets EXCEPT
                           ![ws].intent = TRUE,
                           ![ws].state = IF @ = "open" THEN "closing" ELSE @]
                   ELSE sockets
            /\ ws' = "null"
            /\ isAuthenticated' = FALSE
            /\ subscriptions' = {}
            /\ waiters' = BagOfAll(LAMBDA w : [w EXCEPT !.done = {}], waiters)
  /\ wsOut' = {}
  /\ UNCHANGED <<jwt, reconnectAttempts, reconnectTimers, isConnecting, notWs>>

\* subscribe(channel, market) is called, lines 222-265: it throws when not
\* connected or when a private channel is asked for without authentication;
\* the callers keep at most pending promises pending
subscribeUpTo(channel, market, pending) ==
  /\ isConnected
  /\ channel \in privateChannels => isAuthenticated
  /\ BagCardinality(waiters) < pending
  /\ LET key == subscriptionKey(channel, market)
     IN /\ waiters' = Put(waiters, Waiter("api", "subscribe", key, "gone", {}))
        /\ sockets' = [sockets EXCEPT ![ws].sent = @ \cup {key}]
  /\ wsOut' = {}
  /\ UNCHANGED <<jwt, ws, reconnectAttempts, reconnectTimers, subscriptions,
                 isAuthenticated, isConnecting, pingInterval, notWs>>

subscribe(channel, market) == subscribeUpTo(channel, market, MaxWaiters)

\* unsubscribe(channel, market), lines 271-288; an entry deleted from the
\* Set is no entry that a loop of resubscribe() has visited
unsubscribe(channel, market) ==
  /\ isConnected
  /\ LET key == subscriptionKey(channel, market)
     IN /\ subscriptions' = subscriptions \ {key}
        /\ waiters' = BagOfAll(LAMBDA w : [w EXCEPT !.done = @ \ {key}], waiters)
  /\ wsOut' = {}
  /\ UNCHANGED <<jwt, ws, sockets, reconnectAttempts, reconnectTimers,
                 isAuthenticated, isConnecting, pingInterval, notWs>>

\* 'open' of a socket: the open handler, lines 77-95, up to its first
\* suspension. authenticate() throws when the client is not connected (line
\* 178), which ends the handler.
SocketOpens(s) ==
  /\ sockets[s].state = "connecting"
  /\ ~sockets[s].intent
  /\ BagCardinality(waiters) < MaxWaiters
  /\ isConnecting' = FALSE
  /\ reconnectAttempts' = 0
  /\ LET socks == [sockets EXCEPT ![s].state = "open"]
         connected == ws \in Slots /\ socks[ws].state = "open"
     IN IF jwt
          THEN /\ sockets' = socks
               /\ waiters' = IF connected
                               THEN Put(waiters,
                                        Waiter("open", "auth", << >>, s, {}))
                               ELSE waiters
               /\ wsOut' = {}
               /\ UNCHANGED pingInterval
          ELSE /\ pingInterval' = TRUE
               /\ \E out \in resubscribe(s, {}, subscriptions, connected,
                                         isAuthenticated) :
                    OpenHandlerGoesOn(out, s, waiters, socks, {})
  /\ UNCHANGED <<jwt, ws, reconnectTimers, subscriptions, isAuthenticated,
                 notWs>>

\* 'error' of a socket, lines 101-109; 'close' follows
SocketErrors(s) ==
  /\ sockets[s].state \in {"connecting", "open"}
  /\ sockets' = [sockets EXCEPT ![s].state = "errored"]
  /\ wsOut' = {[event |-> "error"]}
                \cup (IF isConnecting THEN {[event |-> "reject"]} ELSE {})
  /\ isConnecting' = FALSE
  /\ UNCHANGED <<jwt, ws, reconnectAttempts, reconnectTimers, subscriptions,
                 isAuthenticated, pingInterval, waiters, notWs>>

\* the codes 'close' can come with: 1006 after an error, 1000 or 1006 when
\* the peer or the network ends an open socket, 1000 or (the peer not
\* answering) 1006 after close()
ClosesWith(s) ==
  IF sockets[s].state = "errored" THEN {1006}
  ELSE IF sockets[s].state \in {"open", "closing"} THEN CloseCodes
  ELSE {}

\* scheduleReconnect, line 149: the delay of the timer, computed from the
\* counter that line 148 has incremented
delay(attempts) == Min(reconnectDelay * attempts, reconnectCap)

\* scheduleReconnect, lines 148-154: what it logs
Scheduling(attempts) ==
  [event |-> "Scheduling WebSocket reconnection", attempt |-> attempts,
   delayMs |-> delay(attempts)]

\* the close handler clearing this.subscriptions as disconnect() does
SocketClosesClearing(s, code) ==
  /\ code \in ClosesWith(s)
  /\ isConnecting' = FALSE
  /\ isAuthenticated' = FALSE
  /\ pingInterval' = FALSE
  /\ IF code # 1000 /\ reconnectAttempts < maxReconnectAttempts
       THEN /\ reconnectTimers < MaxTimers
            /\ reconnectAttempts' = reconnectAttempts + 1
            /\ reconnectTimers' = reconnectTimers + 1
            /\ wsOut' = {[event |-> "disconnected", code |-> code],
                         Scheduling(reconnectAttempts + 1)}
       ELSE /\ wsOut' = {[event |-> "disconnected", code |-> code]}
            /\ UNCHANGED <<reconnectAttempts, reconnectTimers>>
  /\ sockets' = [sockets EXCEPT ![s] = NoSocket]
  /\ ws' = IF ws = s THEN "closed" ELSE ws
  /\ waiters' = BagOfAll(LAMBDA w :
                   [w EXCEPT !.sock = IF @ = s THEN "gone" ELSE @,
                             !.of = IF @ = s THEN "gone" ELSE @], waiters)
  /\ subscriptions' = {}
  /\ UNCHANGED <<jwt, notWs>>

\* 'close' of a socket: the close handler, lines 111-122, with
\* scheduleReconnect, lines 147-161
SocketCloses(s, code) ==
  /\ code \in ClosesWith(s)
  /\ isConnecting' = FALSE
  /\ isAuthenticated' = FALSE
  /\ pingInterval' = FALSE
  /\ IF code # 1000 /\ reconnectAttempts < maxReconnectAttempts
       THEN /\ reconnectTimers < MaxTimers
            /\ reconnectAttempts' = reconnectAttempts + 1
            /\ reconnectTimers' = reconnectTimers + 1
            /\ wsOut' = {[event |-> "disconnected", code |-> code],
                         Scheduling(reconnectAttempts + 1)}
       ELSE /\ wsOut' = {[event |-> "disconnected", code |-> code]}
            /\ UNCHANGED <<reconnectAttempts, reconnectTimers>>
  /\ sockets' = [sockets EXCEPT ![s] = NoSocket]
  /\ ws' = IF ws = s THEN "closed" ELSE ws
  /\ waiters' = BagOfAll(LAMBDA w :
                   [w EXCEPT !.sock = IF @ = s THEN "gone" ELSE @,
                             !.of = IF @ = s THEN "gone" ELSE @], waiters)
  /\ UNCHANGED <<jwt, subscriptions, notWs>>

\* how a pending request ends: with a response, while its socket is open,
\* or with its 10 s timer (lines 190-192, 243-245)
Settles(w, result) ==
  /\ BagIn(w, waiters)
  /\ result \in {"ok", "error", "timeout"}
  /\ result # "timeout" => (w.sock \in Slots /\ sockets[w.sock].state = "open")

\* the sockets once the timer of the request w has fired: its listener
\* stays, and hears the response if the socket still brings one
TimedOut(w, result, socks) ==
  IF result = "timeout" /\ w.sock \in Slots
    THEN [socks EXCEPT ![w.sock].late =
            @ \cup {IF w.what = "auth" THEN <<"auth">> ELSE w.key}]
    ELSE socks

\* authenticate() of an open handler settles (lines 194-208); the handler
\* goes on with lines 87-94, or ends with the rejection
authenticateSettles(w, result) ==
  /\ Settles(w, result)
  /\ w.what = "auth"
  /\ IF result = "ok"
       THEN /\ isAuthenticated' = TRUE
            /\ pingInterval' = TRUE
            /\ \E out \in resubscribe(w.of, {}, subscriptions, isConnected,
                                      TRUE) :
                 OpenHandlerGoesOn(out, w.of, Take(waiters, w), sockets, {})
       ELSE /\ waiters' = Take(waiters, w)
            /\ wsOut' = IF result = "error"
                          THEN {[event |-> "Authentication failed"]} ELSE {}
            /\ sockets' = TimedOut(w, result, sockets)
            /\ UNCHANGED <<isAuthenticated, pingInterval>>
  /\ UNCHANGED <<jwt, ws, reconnectAttempts, reconnectTimers, subscriptions,
                 isConnecting, notWs>>

\* subscribe() of a caller settles (lines 247-260)
subscribeSettles(w, result) ==
  /\ Settles(w, result)
  /\ w.what = "subscribe"
  /\ w.who = "api"
  /\ waiters' = Take(waiters, w)
  /\ subscriptions' = IF result = "ok" THEN subscriptions \cup {w.key}
                      ELSE subscriptions
  /\ wsOut' = IF result = "error"
                THEN {[event |-> "Subscribe failed", key |-> w.key]} ELSE {}
  /\ sockets' = TimedOut(w, result, sockets)
  /\ UNCHANGED <<jwt, ws, reconnectAttempts, reconnectTimers,
                 isAuthenticated, isConnecting, pingInterval, notWs>>

\* the response to a request whose timer has fired arrives: its listener
\* (lines 194-208, 247-260) is still there and settles the promise that the
\* timer has rejected, which changes nothing, after its other effects
lateResponse(s, item, result) ==
  /\ sockets[s].state = "open"
  /\ item \in sockets[s].late
  /\ result \in {"ok", "error"}
  /\ sockets' = [sockets EXCEPT ![s].late = @ \ {item}]
  /\ IF item = <<"auth">>
       THEN /\ isAuthenticated' = (result = "ok" \/ isAuthenticated)
            /\ wsOut' = IF result = "error"
                          THEN {[event |-> "Authentication failed"]} ELSE {}
            /\ UNCHANGED subscriptions
       ELSE /\ subscriptions' = IF result = "ok"
                                  THEN subscriptions \cup {item}
                                  ELSE subscriptions
            /\ wsOut' = IF result = "error"
                          THEN {[event |-> "Subscribe failed", key |-> item]}
                          ELSE {}
            /\ UNCHANGED isAuthenticated
  /\ UNCHANGED <<jwt, ws, reconnectAttempts, reconnectTimers, isConnecting,
                 pingInterval, waiters, notWs>>

\* subscribe() called by resubscribe() settles; the loop goes on
resubscribeSettles(w, result) ==
  /\ Settles(w, result)
  /\ w.what = "subscribe"
  /\ w.who = "open"
  /\ LET subs == IF result = "ok" THEN subscriptions \cup {w.key}
                 ELSE subscriptions
         logged == (IF result = "error"
                      THEN {[event |-> "Subscribe failed", key |-> w.key]}
                      ELSE {})
                   \cup (IF result = "ok" THEN {}
                         ELSE ResubscribeFailed({w.key}))
     IN /\ subscriptions' = subs
        /\ \E out \in resubscribe(w.of, w.done, subs, isConnected,
                                  isAuthenticated) :
             OpenHandlerGoesOn(out, w.of, Take(waiters, w),
                               TimedOut(w, result, sockets), logged)
  /\ UNCHANGED <<jwt, ws, reconnectAttempts, reconnectTimers,
                 isAuthenticated, isConnecting, pingInterval, notWs>>

\* the callback of the ping interval runs (lines 412-421): a ping request
\* is sent if the client is connected; nothing listens for its response and
\* no timer is set for it
PingFires ==
  /\ pingInterval
  /\ sockets' = IF isConnected /\ sockets[ws].probe = "none"
                  THEN [sockets EXCEPT ![ws].probe = "sent"]
                  ELSE sockets
  /\ wsOut' = {}
  /\ UNCHANGED <<jwt, ws, reconnectAttempts, reconnectTimers, subscriptions,
                 isAuthenticated, isConnecting, pingInterval, waiters, notWs>>

\* the response to a ping arrives: handleMessage emits it as a 'response'
\* (lines 336-339), which no listener takes for its own
PongArrives(s) ==
  /\ sockets[s].state = "open"
  /\ sockets[s].probe # "none"
  /\ sockets' = [sockets EXCEPT ![s].probe = "none"]
  /\ wsOut' = {}
  /\ UNCHANGED <<jwt, ws, reconnectAttempts, reconnectTimers, subscriptions,
                 isAuthenticated, isConnecting, pingInterval, waiters, notWs>>

\* the heartbeat timeout passes for a ping without a response: the client
\* has set no timer for it (lines 412-421), no code runs
HeartbeatTimeoutPasses(s) ==
  /\ sockets[s].state = "open"
  /\ sockets[s].probe = "sent"
  /\ sockets' = [sockets EXCEPT ![s].probe = "overdue"]
  /\ wsOut' = {}
  /\ UNCHANGED <<jwt, ws, reconnectAttempts, reconnectTimers, subscriptions,
                 isAuthenticated, isConnecting, pingInterval, waiters, notWs>>

\* the client as its constructor leaves it (lines 41-50)
WsConstructed ==
  /\ ws = "null"
  /\ sockets = [s \in Slots |-> NoSocket]
  /\ reconnectAttempts = 0
  /\ reconnectTimers = 0
  /\ subscriptions = {}
  /\ isAuthenticated = FALSE
  /\ isConnecting = FALSE
  /\ pingInterval = FALSE
  /\ waiters = EmptyBag
  /\ wsOut = {}

NextWs ==
  \/ ConnectCalled
  \/ ReconnectTimerFires
  \/ disconnect
  \/ \E c \in Subscribable : subscribe(c.channel, c.market)
  \/ \E c \in Subscribable : unsubscribe(c.channel, c.market)
  \/ \E s \in Slots : SocketOpens(s)
  \/ \E s \in Slots : SocketErrors(s)
  \/ \E s \in Slots, code \in CloseCodes : SocketCloses(s, code)
  \/ \E w \in BagToSet(waiters), result \in {"ok", "error", "timeout"} :
       authenticateSettles(w, result)
  \/ \E w \in BagToSet(waiters), result \in {"ok", "error", "timeout"} :
       subscribeSettles(w, result)
  \/ \E w \in BagToSet(waiters), result \in {"ok", "error", "timeout"} :
       resubscribeSettles(w, result)
  \/ \E s \in Slots, c \in Subscribable, result \in {"ok", "error"} :
       \/ lateResponse(s, <<"auth">>, result)
       \/ lateResponse(s, subscriptionKey(c.channel, c.market), result)

\* the client constructed without a credential, whose callers have several
\* subscribe requests pending at a time (the public channels only: the
\* private ones require authentication)
NextSubs ==
  \/ ConnectCalled
  \/ ReconnectTimerFires
  \/ disconnect
  \/ \E c \in Subscribable : subscribeUpTo(c.channel, c.market, MaxPending)
  \/ \E c \in Subscribable : unsubscribe(c.channel, c.market)
  \/ \E s \in Slots : SocketOpens(s)
  \/ \E s \in Slots : SocketErrors(s)
  \/ \E s \in Slots, code \in CloseCodes : SocketCloses(s, code)
  \/ \E w \in BagToSet(waiters), result \in {"ok", "error", "timeout"} :
       subscribeSettles(w, result)
  \/ \E w \in BagToSet(waiters), result \in {"ok", "error", "timeout"} :
       resubscribeSettles(w, result)
  \/ \E s \in Slots, c \in Subscribable, result \in {"ok", "error"} :
       lateResponse(s, subscriptionKey(c.channel, c.market), result)

\* the client with its heartbeat, constructed without a credential: no
\* auth request is ever sent
NextPing ==
  \/ ConnectCalled
  \/ ReconnectTimerFires
  \/ disconnect
  \/ \E c \in Subscribable : subscribe(c.channel, c.market)
  \/ \E c \in Subscribable : unsubscribe(c.channel, c.market)
  \/ \E s \in Slots : SocketOpens(s)
  \/ \E s \in Slots : SocketErrors(s)
  \/ \E s \in Slots, code \in CloseCodes : SocketCloses(s, code)
  \/ \E w \in BagToSet(waiters), result \in {"ok", "error", "timeout"} :
       subscribeSettles(w, result)
  \/ \E w \in BagToSet(waiters), result \in {"ok", "error", "timeout"} :
       resubscribeSettles(w, result)
  \/ \E s \in Slots, c \in Subscribable, result \in {"ok", "error"} :
       lateResponse(s, subscriptionKey(c.channel, c.market), result)
  \/ PingFires
  \/ \E s \in Slots : PongArrives(s)
  \/ \E s \in Slots : HeartbeatTimeoutPasses(s)

(***************************************************************************)
(* Execution-service WebSocket client: ParadexWebSocketClient of part_003  *)
(***************************************************************************)
\* the channels its callers subscribe to (subscribeTrades, line 241)
ExecChannels == {"trades.BTC-USD-PERP"}

\* What a message of the exchange can be: the confirmation of the auth
\* request; a message with an error field (the rejection of the auth or of
\* a subscribe request); notifications, which have no id: a message of
\* method 'subscription' for a channel trades.<market> with an array of
\* trades, one for a channel ticker.<market>, and a message whose method is
\* the name of the channel ({method: 'ticker', params}).
ExecNotifications == {"trades", "ticker", "method"}
ExecMessages == {"auth_ok", "error"} \cup ExecNotifications

\* exec.sock is "null" before the first connect(), or the state of the
\* socket the latest connect() has created ("connecting", "open", "closing"
\* once disconnect() has called close() on it, "closed"); via: who called
\* the connect() whose promise is pending ("api", "timer" for
\* handleReconnect), promise: that promise is pending; callers start one
\* connect() at a time. connectTimer, authTimer: the timers of lines
\* 140-144 and 165-167 of that connect() are pending. reconnectTimeout: the
\* timer the field of that name refers to is pending. authListener: the
\* once('message') listener of line 186 is in place. orphans: the sockets
\* that a later connect() has replaced while they were connecting or open;
\* they are followed up to their 'close' only. timers: the pending timers
\* of handleReconnect, the one the field refers to included. out: what the
\* latest step has emitted or logged.

\* handleReconnect, lines 376-402, up to its timer
handleReconnect(c) ==
  IF c.reconnectAttempts >= execMaxReconnectAttempts
    THEN [c EXCEPT !.out = @ \cup {[event |-> "max_reconnect_attempts"]}]
    ELSE [c EXCEPT
            !.reconnectAttempts = @ + 1,
            !.reconnectTimeout = TRUE,
            !.timers = @ + 1,
            !.out = @ \cup
              {[event |-> "Attempting to reconnect",
                attempt |-> c.reconnectAttempts + 1,
                delayMs |-> execReconnectDelay * 2 ^ c.reconnectAttempts]}]

\* the promise of connect() is rejected: the caller of connect() sees it,
\* handleReconnect catches it and runs again (lines 396-399)
rejectConnect(c) ==
  IF ~c.promise THEN c
  ELSE IF c.via = "timer"
    THEN handleReconnect([c EXCEPT !.promise = FALSE])
    ELSE [c EXCEPT !.promise = FALSE, !.out = @ \cup {[event |-> "reject"]}]

\* the promise of connect() is resolved (lines 113-114, 393-394)
resolveConnect(c) ==
  IF ~c.promise THEN c
  ELSE [c EXCEPT !.promise = FALSE,
                 !.out = @ \cup (IF c.via = "timer"
                                   THEN {[event |-> "reconnected"]} ELSE {})]

\* connect(), lines 99-149: line 104 replaces this.ws whatever it is
execConnect(c, via) ==
  [c EXCEPT !.sock = "connecting", !.via = via, !.promise = TRUE,
            !.connectTimer = TRUE,
            !.orphans = IF c.sock \in {"connecting", "open"}
                          THEN @ + 1 ELSE @]

Quiet(c) == [c EXCEPT !.out = {}]

\* the bounds of the model on the record
ExecBounded(c) == c.orphans <= MaxOrphans /\ c.timers <= MaxExecTimers

\* connect() is called
ExecConnectCalled ==
  /\ ~exec.promise
  /\ exec' = execConnect(Quiet(exec), "api")
  /\ ExecBounded(exec')
  /\ UNCHANGED notExec

\* 'open', lines 106-118: authenticate() (lines 154-191) sends the auth
\* request and listens for the next message
ExecOpens ==
  /\ exec.sock = "connecting"
  /\ exec' = [Quiet(exec) EXCEPT !.sock = "open", !.isConnected = TRUE,
                                 !.reconnectAttempts = 0,
                                 !.authListener = TRUE, !.authTimer = TRUE]
  /\ UNCHANGED notExec

\* the once('message') listener of authenticate() (lines 169-186), if it
\* is in place when a message is emitted
handleAuthResponse(c, message) ==
  IF ~c.authListener THEN c
  ELSE LET heard == [c EXCEPT !.authListener = FALSE]
       IN CASE message = "auth_ok" ->
                 resolveConnect([heard EXCEPT !.authTimer = FALSE,
                                              !.isAuthenticated = TRUE])
            [] message = "error" ->
                 rejectConnect([heard EXCEPT !.authTimer = FALSE])
            [] OTHER -> heard

\* handleSubscriptionMessage, lines 314-348: the events it emits
handleSubscriptionMessage(message) ==
  IF message = "trades" THEN {[event |-> "trade"], [event |-> "channel"]}
  ELSE {[event |-> "channel"]}

\* handleMessage, lines 293-309, after emit('message')
handleMessage(c, message) ==
  CASE message \in {"trades", "ticker"} ->
         [c EXCEPT !.out = @ \cup handleSubscriptionMessage(message)]
    [] message = "error" ->
         [c EXCEPT !.out = @ \cup {[event |-> "error", of |-> "message"]}]
    [] OTHER -> c

\* 'message' of the open socket: emit('message') of line 297 runs the
\* listener of authenticate() first
ExecMessage(message) ==
  /\ exec.sock = "open"
  /\ exec' = handleMessage(
               handleAuthResponse(
                 [exec EXCEPT !.out = {[event |-> "message", of |-> message]}],
                 message),
               message)
  /\ ExecBounded(exec')
  /\ UNCHANGED notExec

\* 'error' of the socket, lines 124-127
ExecSocketError ==
  /\ exec.sock \in {"connecting", "open"}
  /\ exec' = [exec EXCEPT !.out = {[event |-> "error", of |-> "socket"]}]
  /\ UNCHANGED notExec

\* the 5 s timer of authenticate() fires (lines 165-167)
ExecAuthTimeout ==
  /\ exec.authTimer
  /\ exec' = rejectConnect([Quiet(exec) EXCEPT !.authTimer = FALSE])
  /\ ExecBounded(exec')
  /\ UNCHANGED notExec

\* the 10 s timer of connect() fires (lines 140-144)
ExecConnectTimeout ==
  /\ exec.connectTimer
  /\ exec' = LET c == [Quiet(exec) EXCEPT !.connectTimer = FALSE]
             IN IF c.isConnected THEN c ELSE rejectConnect(c)
  /\ ExecBounded(exec')
  /\ UNCHANGED notExec

\* 'close', lines 129-137
ExecCloses ==
  /\ exec.sock \in {"connecting", "open", "closing"}
  /\ exec' = handleReconnect([Quiet(exec) EXCEPT !.sock = "closed",
                                                 !.isConnected = FALSE,
                                                 !.isAuthenticated = FALSE])
  /\ ExecBounded(exec')
  /\ UNCHANGED notExec

\* 'close' of a socket that a later connect() has replaced: the same
\* handler, lines 129-137
ExecOrphanCloses ==
  /\ exec.orphans > 0
  /\ exec' = handleReconnect([Quiet(exec) EXCEPT !.orphans = @ - 1,
                                                 !.isConnected = FALSE,
                                                 !.isAuthenticated = FALSE])
  /\ ExecBounded(exec')
  /\ UNCHANGED notExec

\* a timer of handleReconnect fires (lines 391-401): the one the field
\* reconnectTimeout refers to (latest) or one that was set before it
ExecReconnectTimerFires(latest) ==
  /\ IF latest THEN exec.reconnectTimeout
               ELSE exec.timers > (IF exec.reconnectTimeout THEN 1 ELSE 0)
  /\ ~exec.promise
  /\ exec' = execConnect(
               [Quiet(exec) EXCEPT
                  !.timers = @ - 1,
                  !.reconnectTimeout = IF latest THEN FALSE ELSE @],
               "timer")
  /\ ExecBounded(exec')
  /\ UNCHANGED notExec

\* subscribe(channel), lines 196-213: throws unless connected and
\* authenticated; the request is sent without an id and not awaited
execSubscribe(channel) ==
  /\ exec.isConnected /\ exec.isAuthenticated
  /\ exec' = [Quiet(exec) EXCEPT !.subscribedChannels = @ \cup {channel}]
  /\ UNCHANGED notExec

\* unsubscribe(channel), lines 218-235
execUnsubscribe(channel) ==
  /\ exec.isConnected
  /\ exec' = [Quiet(exec) EXCEPT !.subscribedChannels = @ \ {channel}]
  /\ UNCHANGED notExec

\* disconnect(), lines 254-272
execDisconnect ==
  /\ exec' = [Quiet(exec) EXCEPT
                !.reconnectTimeout = FALSE,
                !.timers = IF exec.reconnectTimeout THEN @ - 1 ELSE @,
                !.sock = CASE @ \in {"connecting", "open"} -> "closing"
                           [] @ = "closed" -> "null"
                           [] OTHER -> @,
                !.isConnected = FALSE,
                !.isAuthenticated = FALSE,
                !.subscribedChannels = {}]
  /\ UNCHANGED notExec

\* the client as its constructor leaves it (lines 78-94)
ExecConstructed ==
  exec = [sock |-> "null", via |-> "api", promise |-> FALSE,
          connectTimer |-> FALSE, authTimer |-> FALSE,
          authListener |-> FALSE, reconnectTimeout |-> FALSE,
          isConnected |-> FALSE, isAuthenticated |-> FALSE,
          reconnectAttempts |-> 0, subscribedChannels |-> {},
          orphans |-> 0, timers |-> 0, out |-> {}]

NextExec ==
  \/ ExecConnectCalled
  \/ ExecOpens
  \/ \E message \in ExecMessages : ExecMessage(message)
  \/ ExecSocketError
  \/ ExecAuthTimeout
  \/ ExecConnectTimeout
  \/ ExecCloses
  \/ ExecOrphanCloses
  \/ \E latest \in BOOLEAN : ExecReconnectTimerFires(latest)
  \/ \E channel \in ExecChannels : execSubscribe(channel)
  \/ \E channel \in ExecChannels : execUnsubscribe(channel)
  \/ execDisconnect

(***************************************************************************)
(* Kline builder: ParadexKlineBuilder of paradex-kline-builder.ts          *)
(***************************************************************************)
\* INTERVAL_MS, lines 12-22; other intervals have no entry
INTERVAL_MS ==
  [i \in {"1m", "3m", "5m", "15m", "30m", "1h", "2h", "4h", "1d"} |->
     CASE i = "1m" -> 60 * 1000
       [] i = "3m" -> 3 * 60 * 1000
       [] i = "5m" -> 5 * 60 * 1000
       [] i = "15m" -> 15 * 60 * 1000
       [] i = "30m" -> 30 * 60 * 1000
       [] i = "1h" -> 60 * 60 * 1000
       [] i = "2h" -> 2 * 60 * 60 * 1000
       [] i = "4h" -> 4 * 60 * 60 * 1000
       [] i = "1d" -> 24 * 60 * 60 * 1000]

\* the intervals the builder is constructed with; "7m" has no entry
Intervals == {"1m", "7m"}

\* the markets whose trades the builder is given
KlineMarkets == {"BTC-USD-PERP", "ETH-USD-PERP"}

\* the decimal texts of trade.price and trade.size, and what parseFloat
\* (lines 59-60) makes of them
PriceTexts == {"8", "10", "12"}
SizeTexts == {"1"}
parseFloat(text) ==
  CASE text = "1" -> 1
    [] text = "8" -> 8
    [] text = "10" -> 10
    [] text = "12" -> 12

\* the timestamps of the trades: in three buckets in a row, the first
\* millisecond of the first and of the third, the second of the second
Timestamps(ms) == {0, ms + 1, 2 * ms}

\* ParadexTrade, as far as processTrade reads it
Trades(ms) ==
  [market : KlineMarkets, price : PriceTexts, size : SizeTexts,
   timestamp : Timestamps(ms)]

\* no entry in this.currentKline
NoKline == [openTime |-> -1]

\* klineOut after a method without return value; otherwise call is the
\* method, market and limit its arguments, rows or count its value
Void ==
  [call |-> "void", market |-> "", limit |-> [given |-> FALSE, n |-> 0],
   rows |-> << >>, count |-> 0]

\* getKlineStartTime without Math.floor(timestamp / intervalMs)
getKlineStartTimeExact(timestamp) == timestamp

\* getKlineStartTime, lines 174-176
getKlineStartTime(timestamp) == (timestamp \div intervalMs) * intervalMs

\* processTrade, lines 75-83: the kline a trade starts
startKline(klineStartTime, price, size) ==
  [openTime |-> klineStartTime, open |-> price, high |-> price, low |-> price,
   close |-> price, volume |-> size,
   closeTime |-> klineStartTime + intervalMs - 1]

\* lines 88-91 with the latest price in the place of Math.max and Math.min
updateKlineLatest(kline, price, size) ==
  [kline EXCEPT !.high = price, !.low = price, !.close = price,
                !.volume = @ + size]

\* processTrade, lines 88-91: the current kline takes a trade in
updateKline(kline, price, size) ==
  [kline EXCEPT !.high = Max(@, price), !.low = Min(@, price),
                !.close = price, !.volume = @ + size]

\* closeKline with pop() in the place of shift(): beyond maxKlines the
\* newest element is dropped
closeKlinePop(marketKlines, kline) ==
  LET pushed == Append(marketKlines, kline)
  IN IF Len(pushed) > maxKlines THEN SubSeq(pushed, 1, Len(pushed) - 1)
     ELSE pushed

\* closeKline that also sets the close of the newest kline of the history
\* to the open of the kline it pushes
closeKlineAdjusting(marketKlines, kline) ==
  LET adjusted == [i \in 1..Len(marketKlines) |->
                     IF i = Len(marketKlines)
                       THEN [marketKlines[i] EXCEPT !.close = kline.open]
                       ELSE marketKlines[i]]
      pushed == Append(adjusted, kline)
  IN IF Len(pushed) > maxKlines THEN Tail(pushed) ELSE pushed

\* closeKline, lines 142-155: the history of a market after kline has been
\* pushed and, beyond maxKlines, the first element shifted out
closeKline(marketKlines, kline) ==
  LET pushed == Append(marketKlines, kline)
  IN IF Len(pushed) > maxKlines THEN Tail(pushed) ELSE pushed

\* processTrade, lines 57-93
processTrade(trade) ==
  LET market == trade.market
      price == parseFloat(trade.price)
      size == parseFloat(trade.size)
      current == currentKline[market]
      klineStartTime == getKlineStartTime(trade.timestamp)
  IN /\ Len(tape) < MaxTape
     /\ IF current = NoKline \/ current.openTime # klineStartTime
          THEN /\ klines' = IF current # NoKline
                              THEN [klines EXCEPT
                                      ![market] = closeKline(@, current)]
                              ELSE klines
               /\ currentKline' =
                    [currentKline EXCEPT
                       ![market] = startKline(klineStartTime, price, size)]
          ELSE /\ currentKline' =
                    [currentKline EXCEPT
                       ![market] = updateKline(current, price, size)]
               /\ UNCHANGED klines
     /\ tape' = Append(tape, trade)
     /\ klineOut' = Void
     /\ UNCHANGED <<intervalMs, maxKlines, notKline>>

\* clearMarket, lines 200-203
clearMarket(market) ==
  /\ klines' = [klines EXCEPT ![market] = << >>]
  /\ currentKline' = [currentKline EXCEPT ![market] = NoKline]
  /\ tape' = SelectSeq(tape, LAMBDA t : t.market # market)
  /\ klineOut' = Void
  /\ UNCHANGED <<intervalMs, maxKlines, notKline>>

\* clearAll, lines 208-211
clearAll ==
  /\ klines' = [m \in KlineMarkets |-> << >>]
  /\ currentKline' = [m \in KlineMarkets |-> NoKline]
  /\ tape' = << >>
  /\ klineOut' = Void
  /\ UNCHANGED <<intervalMs, maxKlines, notKline>>

\* the values of the optional parameter limit of getKlines: not given, or
\* the number n
Limits ==
  {[given |-> FALSE, n |-> 0]} \cup [given : {TRUE}, n : 0..MaxLimit]

\* Array.prototype.slice(-n) for n > 0 (line 110)
sliceLast(array, n) ==
  IF n >= Len(array) THEN array
  ELSE SubSeq(array, Len(array) - n + 1, Len(array))

\* the row of getKlines for a kline (lines 114-127), up to closeTime
Row(kline) ==
  <<kline.openTime, ToString(kline.open), ToString(kline.high),
    ToString(kline.low), ToString(kline.close), ToString(kline.volume),
    kline.closeTime>>

\* getKlines, lines 99-128; limit || this.maxKlines takes 0 for no limit
getKlines(market, limit) ==
  LET allKlines == IF currentKline[market] # NoKline
                     THEN Append(klines[market], currentKline[market])
                     ELSE klines[market]
      limitToUse == IF ~limit.given \/ limit.n = 0 THEN maxKlines
                    ELSE limit.n
      limited == IF Len(allKlines) > limitToUse
                   THEN sliceLast(allKlines, limitToUse) ELSE allKlines
  IN /\ klineOut' = [Void EXCEPT
                       !.call = "getKlines", !.market = market,
                       !.limit = limit,
                       !.rows = [i \in 1..Len(limited) |-> Row(limited[i])]]
     /\ UNCHANGED <<klines, currentKline, intervalMs, maxKlines, tape,
                    notKline>>

\* getKlineCount, lines 191-195
getKlineCount(market) ==
  /\ klineOut' = [Void EXCEPT
                    !.call = "getKlineCount", !.market = market,
                    !.count = Len(klines[market])
                                + (IF currentKline[market] # NoKline
                                     THEN 1 ELSE 0)]
  /\ UNCHANGED <<klines, currentKline, intervalMs, maxKlines, tape, notKline>>

\* the builder as its constructor leaves it (lines 48-52)
KlineConstructed(interval, max) ==
  /\ klines = [m \in KlineMarkets |-> << >>]
  /\ currentKline = [m \in KlineMarkets |-> NoKline]
  /\ intervalMs = IF interval \in DOMAIN INTERVAL_MS
                    THEN INTERVAL_MS[interval] ELSE INTERVAL_MS["5m"]
  /\ maxKlines = max
  /\ klineOut = Void
  /\ tape = << >>

NextKline ==
  \/ \E trade \in Trades(intervalMs) : processTrade(trade)
  \/ \E m \in KlineMarkets : clearMarket(m)
  \/ clearAll

\* the builder with the callers of getKlines and getKlineCount; the trades
\* differ in market and time only
NextQuery ==
  \/ \E trade \in Trades(intervalMs) :
       trade.price = "10" /\ processTrade(trade)
  \/ \E m \in KlineMarkets : clearMarket(m)
  \/ clearAll
  \/ \E m \in KlineMarkets, limit \in Limits : getKlines(m, limit)
  \/ \E m \in KlineMarkets : getKlineCount(m)

(***************************************************************************)
(* Specifications                                                          *)
(***************************************************************************)
\* The agent after initialize(): connected and subscribed, no position yet,
\* a token cached (getBalance has run) that outlasts the clock of the model.
InitAgent ==
  /\ now = 0
  /\ jwtToken = "jwt"
  /\ jwtExpiry = RefreshSkew + (MaxTicks + 1) * TimeStep
  /\ calls = EmptyBag
  /\ opening \in Sides
  /\ IdleAgent
  /\ InitHmac
  /\ jwt = TRUE
  /\ WsConstructed
  /\ KlineConstructed("5m", 1)
  /\ ExecConstructed

\* the agent before initialize()
InitStart ==
  /\ now = 0
  /\ jwtToken = "jwt"
  /\ jwtExpiry = RefreshSkew + (MaxTicks + 1) * TimeStep
  /\ calls = EmptyBag
  /\ opening \in Sides
  /\ config \in ScalperConfigs
  /\ JustConstructed
  /\ InitHmac
  /\ jwt = TRUE
  /\ WsConstructed
  /\ KlineConstructed("5m", 1)
  /\ ExecConstructed

\* the agent after initialize(), configured with overlapping thresholds
InitExit ==
  /\ now = 0
  /\ jwtToken = "jwt"
  /\ jwtExpiry = RefreshSkew + (MaxTicks + 1) * TimeStep
  /\ calls = EmptyBag
  /\ opening = "long"
  /\ config \in OverlappingConfigs
  /\ NoPositionsYet
  /\ InitHmac
  /\ jwt = TRUE
  /\ WsConstructed
  /\ KlineConstructed("5m", 1)
  /\ ExecConstructed

Init ==
  /\ InitRest
  /\ InitHmac
  /\ opening = "long"
  /\ IdleAgent
  /\ jwt = TRUE
  /\ WsConstructed
  /\ KlineConstructed("5m", 1)
  /\ ExecConstructed

\* the WebSocket client is constructed with a jwt or without
InitWs ==
  /\ InitRest
  /\ InitHmac
  /\ opening = "long"
  /\ IdleAgent
  /\ jwt \in BOOLEAN
  /\ WsConstructed
  /\ KlineConstructed("5m", 1)
  /\ ExecConstructed

\* the kline builder is constructed with an interval and a history bound
InitKline ==
  /\ InitRest
  /\ InitHmac
  /\ opening = "long"
  /\ IdleAgent
  /\ jwt = TRUE
  /\ WsConstructed
  /\ \E interval \in Intervals, max \in 1..MaxMaxKlines :
       KlineConstructed(interval, max)
  /\ ExecConstructed

SpecRest == Init /\ [][NextRest]_vars

\* What the event loop guarantees to the JWT client: a backoff timer that
\* has been set fires (line 136), and a caller awaiting a call that has
\* returned resumes. Nothing in request() ends a fetch the exchange does
\* not answer (lines 109-125 pass no signal), so no fairness is assumed
\* of the responses.
SpecRestLive ==
  /\ SpecRest
  /\ WF_vars(\E r \in BagToSet(calls) : BackoffElapsed(r))
  /\ WF_vars(\E r \in BagToSet(calls) : JwtBackoffElapsed(r))
  /\ WF_vars(\E r \in BagToSet(calls) : ApiReturn(r))

SpecHmac == Init /\ [][NextHmac]_vars

SpecAgent == InitAgent /\ [][NextAgent]_vars

SpecExit == InitExit /\ [][NextAgent]_vars

SpecStop == InitAgent /\ [][NextStop]_vars

SpecStart == InitStart /\ [][NextStart]_vars

SpecWs == InitWs /\ [][NextWs]_vars

\* the client constructed without a credential (auth?.jwt undefined)
InitPing ==
  /\ InitRest
  /\ InitHmac
  /\ opening = "long"
  /\ IdleAgent
  /\ jwt = FALSE
  /\ WsConstructed
  /\ KlineConstructed("5m", 1)
  /\ ExecConstructed

SpecPing == InitPing /\ [][NextPing]_vars

SpecSubs == InitPing /\ [][NextSubs]_vars

SpecExec == Init /\ [][NextExec]_vars

SpecQuery == InitKline /\ [][NextQuery]_vars

SpecKline == InitKline /\ [][NextKline]_vars

(***************************************************************************)
(* Properties                                                              *)
(***************************************************************************)
\* the refresh requests POST /auth/jwt that are awaiting their response
RefreshesInFlight ==
  Copies(calls, {r \in BagToSet(calls) : r.pc = "jwt_fetch"})

\* C5: at most one token refresh request is in flight at any time; callers
\* that need a token while a refresh is in progress wait for that refresh
\* instead of sending their own.
C5_SingleRefreshInFlight == RefreshesInFlight <= 1

\* C2: in the signed request client a POST (order placement) is never sent
\* again once an HTTP response to it has been received, whatever its status:
\* no POST is on the wire as the retry of an attempt that ended with a
\* response.
C2_PostNotResentAfterResponse ==
  \A r \in BagToSet(hcalls) :
    (r.method = "POST" /\ r.pc = "fetch") => r.last # "http"

\* the close orders on the wire for the Position object that the map holds
\* for a market
CloseOrdersInFlight(market) ==
  Copies(calls, {r \in BagToSet(calls) :
                   /\ r.owner.kind = "close"
                   /\ r.owner.market = market
                   /\ r.owner.attached
                   /\ r.pc = "fetch"})

\* C1: while a close of a position is in flight, a further exit trigger for
\* the same position sends no second close order: at most one reduce-only
\* close order per position is awaiting its response.
C1_OneCloseOrderInFlight ==
  \A m \in Markets : CloseOrdersInFlight(m) <= 1

\* request() sends the order of the suspended invocation r again
Resends(r) ==
  calls' = Put(Take(calls, r), AttemptStart([r EXCEPT !.attempt = @ + 1]))

\* C3: after a close order has failed without a response, the order is not
\* sent again before the position snapshot has been queried, and when the
\* exchange holds no position any more (the snapshot shows size 0) the
\* close is finalized instead of being sent again.
C3_NoResendOnceClosed ==
  [][\A r \in BagToSet(calls) :
       (r.owner.kind = "close" /\ r.pc = "backoff"
          /\ exch[r.owner.market].size = 0) => ~Resends(r)]_vars

\* C4: a position leaves the live set only when the exchange has confirmed
\* that it is closed (a size-0 notification for its market is handled); the
\* response that accepts the close order does not remove it.
C4_RemovedOnlyOnConfirmation ==
  [][\A m \in Markets :
       (positions[m] # NoPosition /\ positions'[m] = NoPosition) =>
         /\ inbox # << >>
         /\ Head(inbox).market = m
         /\ Head(inbox).e.size = 0
         /\ inbox' = Tail(inbox)]_vars

\* C6: every request waiter (auth or subscribe) that is pending when the
\* transport closes is rejected as part of handling that close: no waiter
\* is pending whose connection has closed.
C6_NoWaiterOutlivesItsConnection ==
  \A w \in BagToSet(waiters) : w.sock # "gone"

\* the close handler of the socket s runs in this step
Closes(s) == sockets[s] # NoSocket /\ sockets'[s] = NoSocket

\* C8: a close caused by disconnect() schedules no reconnect, and every
\* other close schedules one as long as the attempt ceiling has not been
\* reached.
C8_ReconnectIffUnintended ==
  [][\A s \in Slots :
       Closes(s) =>
         IF sockets[s].intent
           THEN reconnectTimers' = reconnectTimers
           ELSE reconnectAttempts < maxReconnectAttempts
                  => reconnectTimers' = reconnectTimers + 1]_vars

\* C9: the close that ends the last allowed reconnect cycle (the attempt
\* counter is at the maximum) emits a terminal error event and schedules no
\* further reconnect.
C9_TerminalErrorAtCeiling ==
  [][\A s \in Slots :
       (Closes(s) /\ ~sockets[s].intent
          /\ reconnectAttempts = maxReconnectAttempts)
         => /\ [event |-> "error"] \in wsOut'
            /\ reconnectTimers' = reconnectTimers]_vars

\* the auth request w of an open handler is rejected in this step, by an
\* error response or by its timer: the handler neither goes on to
\* resubscribe nor emits 'connected'
AuthRejected(w) ==
  /\ BagIn(w, waiters)
  /\ w.what = "auth"
  /\ waiters' = Take(waiters, w)
  /\ \A e \in wsOut' : e.event # "connected"

\* C10: when the auth request sent on transport-open is rejected or times
\* out, the session emits an error event and closes the transport, and the
\* session is not authenticated.
C10_AuthFailureClosesTransport ==
  [][\A w \in BagToSet(waiters) :
       AuthRejected(w) =>
         /\ [event |-> "error"] \in wsOut'
         /\ w.sock \in Slots => sockets'[w.sock].state # "open"
         /\ ~isAuthenticated']_vars

\* the open handler of the socket s has ended with emit('connected') in the
\* last step, and s is the connection of the client
Reconnected(s) ==
  /\ [event |-> "connected", sock |-> s] \in wsOut
  /\ ws = s
  /\ sockets[s].state = "open"

\* C7: when a reconnect has succeeded, a subscribe request has been sent on
\* the new connection for every entry of the subscription set, whether or
\* not the resubscription of another entry has failed.
C7_AllEntriesResent ==
  \A s \in Slots : Reconnected(s) => subscriptions \subseteq sockets[s].sent

\* processTrade is given the trade t in this step
Processes(t) == tape' = Append(tape, t)

\* C11: a trade whose bucket is older than the bucket of the open candle
\* of its symbol is folded into the open candle (high, low, close and
\* volume take it in); the open candle is not closed, no candle with an
\* earlier openTime is created and the closed candles do not change.
C11_LateTradeFolded ==
  [][\A t \in Trades(intervalMs) :
       (/\ Processes(t)
        /\ currentKline[t.market] # NoKline
        /\ getKlineStartTime(t.timestamp) < currentKline[t.market].openTime)
         => /\ klines' = klines
            /\ currentKline'[t.market] =
                 [currentKline[t.market] EXCEPT
                    !.high = Max(@, parseFloat(t.price)),
                    !.low = Min(@, parseFloat(t.price)),
                    !.close = parseFloat(t.price),
                    !.volume = @ + parseFloat(t.size)]]_vars

\* the trades of the tape for a market, in the order they were given
TapeOf(m) == SelectSeq(tape, LAMBDA t : t.market = m)

\* processTrade of the trade t closes the open candle of its market in this
\* step: a candle of another bucket is the open candle afterwards
ClosesCandle(t) ==
  /\ Processes(t)
  /\ currentKline[t.market] # NoKline
  /\ currentKline'[t.market].openTime # currentKline[t.market].openTime

\* C12: the closed-candle history of every symbol holds at most maxKlines
\* candles, and closing a candle appends it to the history and, when that
\* exceeds maxKlines, evicts the oldest candle of the history (FIFO).
C12_BoundedFifoHistory ==
  /\ [](\A m \in KlineMarkets : Len(klines[m]) <= maxKlines)
  /\ [][\A t \in Trades(intervalMs) :
          ClosesCandle(t) =>
            LET pushed == Append(klines[t.market], currentKline[t.market])
            IN klines'[t.market] = IF Len(pushed) > maxKlines
                                     THEN Tail(pushed) ELSE pushed]_vars

\* a history that is full and whose oldest candle is not the first candle
\* of the symbol any more: the first candle has been evicted
C12_Evicted ==
  \E m \in KlineMarkets :
    /\ Len(klines[m]) = maxKlines
    /\ TapeOf(m) # << >>
    /\ klines[m][1].openTime # getKlineStartTime(TapeOf(m)[1].timestamp)

\* the timestamps of a sequence of trades never decrease
NonDecreasing(trades) ==
  \A i \in 1..(Len(trades) - 1) : trades[i].timestamp <= trades[i + 1].timestamp

\* C13: for a symbol whose trades came with non-decreasing timestamps, after
\* each processTrade the symbol has its open candle, whose high is at least
\* and whose low is at most every price ingested into its bucket, and the
\* openTime values of the closed history never decrease from oldest to
\* newest.
C13_OrderedTradesAggregate ==
  \A m \in KlineMarkets :
    (TapeOf(m) # << >> /\ NonDecreasing(TapeOf(m))) =>
      /\ currentKline[m] # NoKline
      /\ \A i \in 1..Len(TapeOf(m)) :
           LET t == TapeOf(m)[i]
           IN getKlineStartTime(t.timestamp) = currentKline[m].openTime
                => /\ currentKline[m].high >= parseFloat(t.price)
                   /\ currentKline[m].low <= parseFloat(t.price)
      /\ \A i \in 1..(Len(klines[m]) - 1) :
           klines[m][i].openTime <= klines[m][i + 1].openTime

\* trades in time order have closed two candles of a symbol, and its open
\* candle has taken in a higher price and then a lower one
C13_TwoClosedAndARange ==
  \E m \in KlineMarkets :
    /\ NonDecreasing(TapeOf(m))
    /\ Len(klines[m]) = 2
    /\ currentKline[m] # NoKline
    /\ currentKline[m].high > currentKline[m].close

CloseTriggered(r) ==
  /\ r.owner.kind = "close"
  /\ r.owner.attached
  /\ r.pc = "fetch"
  /\ r.attempt = 0
  /\ ~r.filled
  /\ CopiesIn(r, calls') > CopiesIn(r, calls)

\* C15: an evaluation of the exit conditions triggers at most one close,
\* with the reason of the first condition that holds in the order stop
\* loss, take profit, max hold: when the ROE meets the stop loss and the
\* take profit threshold in the same update the reason is stop_loss.
C15_FirstMatchingExitWins ==
  [][/\ BagCardinality(calls') <= BagCardinality(calls) + 1
     /\ \A r \in BagToSet(calls') :
          CloseTriggered(r) =>
            LET position == positions'[r.owner.market]
            IN r.owner.reason =
                 IF position.unrealizedROE <= config.stopLossROE
                   THEN "stop_loss"
                 ELSE IF position.unrealizedROE >= config.takeProfitROE
                   THEN "take_profit"
                 ELSE "max_hold_time"]_vars

\* a close with the reason stop_loss is in flight for a position whose ROE
\* meets the stop loss and the take profit threshold
C15_BothThresholdsMet ==
  \E r \in BagToSet(calls) :
    /\ r.owner.kind = "close"
    /\ r.owner.attached
    /\ r.attempt = 0
    /\ r.owner.reason = "stop_loss"
    /\ positions[r.owner.market].unrealizedROE <= config.stopLossROE
    /\ positions[r.owner.market].unrealizedROE >= config.takeProfitROE

\* the agent handles a notification of the 'positions' channel with size 0
\* for the market m in this step
HandlesSizeZero(m) ==
  /\ inbox # << >>
  /\ Head(inbox).market = m
  /\ Head(inbox).e.size = 0
  /\ inbox' = Tail(inbox)

\* C16: an exchange position update with size 0 for a symbol removes the
\* local position of that symbol from the live set, whether or not a close
\* has been triggered or is in flight for it.
C16_SizeZeroRemoves ==
  [][\A m \in Markets : HandlesSizeZero(m) => positions'[m] = NoPosition]_vars

\* a size-0 update has just removed the position of a market whose close
\* order is still on the wire
C16_RemovedWhileClosing ==
  \E m \in Markets :
    /\ positions[m] = NoPosition
    /\ emits = <<[event |-> "position_closed", market |-> m, reason |-> "none"]>>
    /\ \E r \in BagToSet(calls) :
         /\ r.owner.kind = "close"
         /\ r.owner.market = m
         /\ r.pc = "fetch"
         /\ ~r.owner.attached

\* an attempt of an authenticated request goes onto the wire in this step:
\* the Authorization header has been set (lines 106-107) and fetch called
Attached(r) ==
  /\ r.pc = "fetch"
  /\ r.authenticated
  /\ CopiesIn(r, calls') > CopiesIn(r, calls)

\* C17 as stated: every authenticated request attempt carries a token whose
\* expiry is more than refreshSkew in the future at the moment it is
\* attached.
C17_TokenAheadOfSkew ==
  [][\A r \in BagToSet(calls') :
       Attached(r) =>
         jwtToken' # "none" /\ now' < jwtExpiry' - RefreshSkew]_vars

\* the refresh request of the suspended invocation r0 succeeds in this step
\* and r0 goes on to fetch with the token it has returned
Refreshed(r0) ==
  /\ r0.pc = "jwt_fetch"
  /\ BagIn(r0, calls)
  /\ calls' = Put(Take(calls, r0),
                  [r0 EXCEPT !.pc = "fetch", !.rAttempt = 0, !.filled = FALSE])
  /\ jwtToken' # "none"
  /\ \E lifetime \in TokenLifetimes : jwtExpiry' = now + lifetime

\* C17 as amended: every authenticated request attempt carries either the
\* cached token, whose expiry is then more than refreshSkew in the future,
\* or the token that a refresh completed for this attempt has just returned,
\* whatever its expiry; the request is not sent when the refresh fails.
C17_CachedAheadOrJustRefreshed ==
  [][\A r \in BagToSet(calls') :
       Attached(r) =>
         \/ JwtCacheValid /\ UNCHANGED <<jwtToken, jwtExpiry>>
         \/ \E r0 \in BagToSet(calls) : Refreshed(r0)]_vars

\* a request is on the wire with a token that a refresh has returned and
\* that is not more than refreshSkew ahead of its expiry
C17_SentWithShortLivedToken ==
  \E r \in BagToSet(calls) :
    /\ r.pc = "fetch"
    /\ r.authenticated
    /\ jwtToken # "none"
    /\ ~JwtCacheValid

\* the calls that have returned a failure of one of the three kinds: no
\* response ("network"), response that rejects the request ("http" with a
\* status 4xx, "server" with a status 5xx), refresh of the credential
\* failed ("auth")
Failed ==
  {r \in BagToSet(calls) :
     r.pc = "done" /\ r.result \in {"network", "http", "server", "auth"}}

Returns(r, result) ==
  /\ BagIn(r, calls)
  /\ r.pc = "fetch"
  /\ calls' = Put(Take(calls, r), Return(r, result))

\* C19: an attempt of a GET that fails with no response or with a 5xx
\* response is followed by another attempt as long as fewer than Retries
\* retries have been made: the call does not return that failure before
\* its last attempt.
C19_IdempotentFailureRetried ==
  [][\A r \in BagToSet(calls) :
       (r.method = "GET" /\ r.attempt < Retries) =>
         ~(Returns(r, "network") \/ Returns(r, "server"))]_vars

\* the first attempt of a call of the public API, with its fetch pending
FirstFetch(method, authenticated) ==
  [NewCall(method, authenticated, ApiOwner) EXCEPT !.pc = "fetch"]

\* C20: an attempt does not remain pending forever: a call that is alone
\* with the fetch of its first attempt pending leaves that state, by a
\* response or by the abort of the attempt.
C20_PendingAttemptEnds ==
  \A m \in Methods, a \in BOOLEAN :
    (calls = SetToBag({FirstFetch(m, a)}))
      ~> (calls # SetToBag({FirstFetch(m, a)}))

\* C21: once stop() has released the connection no close request of the
\* agent is in flight any more: stop() has waited for the close requests
\* to complete, and no response to one is processed afterwards.
C21_NoCloseInFlightOnceStopped ==
  status = "stopped" =>
    \A r \in BagToSet(calls) : r.owner.kind # "close"

\* C22: no connected session has a liveness probe that has been without a
\* response for longer than the heartbeat timeout: when the timeout passes
\* the session becomes disconnected as on an unsolicited close.
C22_OverdueProbeDisconnects ==
  \A s \in Slots :
    sockets[s].probe = "overdue" => ~(ws = s /\ sockets[s].state = "open")

\* unsubscribe() of the entry k, disconnect() on a client that has a socket
Unsubscribes(k) == isConnected /\ subscriptions' = subscriptions \ {k}
Disconnects == ws # "null" /\ ws' = "null" /\ subscriptions' = {}

\* the timer of scheduleReconnect fires
ReconnectStarts == reconnectTimers' < reconnectTimers

\* the subscribe request that resubscribe() awaits for an entry fails
ResubscriptionFails(w) ==
  /\ BagIn(w, waiters)
  /\ w.who = "open"
  /\ w.what = "subscribe"
  /\ CopiesIn(w, waiters') < CopiesIn(w, waiters)
  /\ [event |-> "Resubscribe failed", key |-> w.key] \in wsOut'
  /\ w.key \in w.done

\* C23: the close of a transport (with the scheduling of a reconnect), the
\* start of a reconnect, the opening of the new transport and a failed
\* resubscription leave the subscription set unchanged; an entry leaves the
\* set only by unsubscribe() of that entry or by disconnect().
C23_SubscriptionsSurvive ==
  [][/\ \A k \in subscriptions \ subscriptions' :
          Unsubscribes(k) \/ Disconnects
     /\ (\E s \in Slots : Closes(s)) => UNCHANGED subscriptions
     /\ ReconnectStarts => UNCHANGED subscriptions
     /\ (\E s \in Slots : sockets[s].state = "connecting"
                             /\ sockets'[s].state = "open")
          => UNCHANGED subscriptions
     /\ (\E w \in BagToSet(waiters) : ResubscriptionFails(w))
          => UNCHANGED subscriptions]_vars

\* a transport has closed unasked, a reconnect is scheduled and the set
\* holds an entry
C23_EntriesAfterUnsolicitedClose ==
  /\ subscriptions # {}
  /\ ws = "closed"
  /\ reconnectTimers > 0
  /\ \E e \in wsOut : e.event = "disconnected" /\ e.code # 1000

\* the position of the market m leaves the live set
Removed(m) == positions[m] # NoPosition /\ positions'[m] = NoPosition

\* the reasons a position_closed event can carry
CloseReasons == {"stop_loss", "take_profit", "max_hold_time", "external"}

\* C24: when a position leaves the live set because its closure has been
\* confirmed, the trade counter goes up by one, dailyPnL and totalPnL go up
\* by the P&L of the position, and a position_closed event with the reason
\* of the closure is emitted.
C24_ClosureCountedWithReason ==
  [][\A m \in Markets :
       Removed(m) =>
         /\ stats'.totalTrades = stats.totalTrades + 1
         /\ stats'.dailyPnL = stats.dailyPnL + positions[m].unrealizedPnl
         /\ stats'.totalPnL = stats.totalPnL + positions[m].unrealizedPnl
         /\ \E i \in 1..Len(emits') :
              /\ emits'[i].event = "position_closed"
              /\ emits'[i].market = m
              /\ emits'[i].reason \in CloseReasons]_vars

\* C25: no position of the live set has size 0.
C25_NoZeroSizeInLiveSet ==
  \A m \in Markets : positions[m] # NoPosition => positions[m].size # 0

\* the agent has just handled the size-0 update of a market
C25_ZeroSizeUpdateHandled ==
  \E m \in Markets :
    /\ emits = <<[event |-> "position_closed", market |-> m,
                  reason |-> "none"]>>
    /\ exch[m].size = 0

\* the history h2 holds the klines of the history h1, but for the oldest
\* ones, as they were, and after them at most the kline c
KeepsClosed(h1, h2, c) ==
  \/ h2 = h1
  \/ h2 = Append(h1, c)
  \/ h2 = Tail(Append(h1, c))

\* C26: processTrade changes no closed candle: the history of every market
\* after the call holds the candles it held before, unchanged (the oldest
\* one possibly evicted), and at most one more, which is the candle that
\* was open, with the fields it had.
C26_ClosedCandlesImmutable ==
  [][\A t \in Trades(intervalMs) :
       Processes(t) =>
         \A m \in KlineMarkets :
           /\ KeepsClosed(klines[m], klines'[m], currentKline[m])
           /\ m # t.market =>
                 klines'[m] = klines[m] /\ currentKline'[m] = currentKline[m]]_vars

\* a market has a closed candle in its history and an open candle that a
\* later trade has been folded into
C26_TradeAfterClosure ==
  \E m \in KlineMarkets :
    /\ Len(klines[m]) >= 1
    /\ currentKline[m] # NoKline
    /\ currentKline[m].volume >= 2

\* the subscribe request of the pending waiter w is answered with an error
Rejected(w) ==
  /\ BagIn(w, waiters)
  /\ w.what = "subscribe"
  /\ CopiesIn(w, waiters') < CopiesIn(w, waiters)
  /\ [event |-> "Subscribe failed", key |-> w.key] \in wsOut'

\* In websocket-client.ts an error response to a subscribe request fails the
\* waiter of that request only: every other pending waiter stays pending,
\* the connection stays as it is, no error or disconnected event is emitted,
\* no reconnect is scheduled and the subscription set is unchanged (holds
\* under SpecSubs).
WsErrorFailsOneWaiter ==
  [][\A w \in BagToSet(waiters) :
       Rejected(w) =>
         /\ \A v \in BagToSet(waiters) :
              CopiesIn(v, waiters') >= CopiesIn(v, Take(waiters, w))
         /\ ws' = ws
         /\ \A s \in Slots : sockets'[s].state = sockets[s].state
         /\ \A e \in wsOut' : e.event \notin {"error", "disconnected"}
         /\ UNCHANGED <<reconnectTimers, reconnectAttempts, subscriptions>>]_vars

\* what scheduleReconnect has logged in the step
Scheduled(out) == {e \in out : e.event = "Scheduling WebSocket reconnection"}

\* In websocket-client.ts the delay scheduled before reconnect attempt n, n
\* being one more than the number of attempts made since the session was
\* last connected, is min(base * n, cap) (holds under SpecWs).
WsDelayLinearUpToCap ==
  [][\A e \in Scheduled(wsOut') :
       /\ e.attempt = reconnectAttempts + 1
       /\ e.attempt >= 1
       /\ e.delayMs <= reconnectCap
       /\ e.delayMs = IF reconnectDelay * e.attempt <= reconnectCap
                        THEN reconnectDelay * e.attempt ELSE reconnectCap]_vars

\* what handleReconnect has logged in the latest step of the execution
\* client
Attempting(out) == {e \in out : e.event = "Attempting to reconnect"}

\* C27: an error response to one request leaves the session alone: the
\* execution-service client emits no session-wide error for a message that
\* carries an error while it is connected and authenticated.
C27_NoSessionWideError ==
  [][(exec.isConnected /\ exec.isAuthenticated /\ exec.sock = "open")
       => [event |-> "error", of |-> "message"] \notin exec'.out]_vars

\* C28: the delay the execution-service client schedules before reconnect
\* attempt n is min(base * n, cap).
C28_ExecDelayLinearUpToCap ==
  [][\A e \in Attempting(exec'.out) :
       e.delayMs = Min(execReconnectDelay * e.attempt, reconnectCap)]_vars

\* C29: within a run of failed attempts, the delay scheduled before an
\* attempt is double the delay scheduled before the previous one.
C29_DelayDoubles ==
  [][\A e \in Scheduled(wsOut') :
       e.attempt > 1 => e.delayMs = 2 * delay(e.attempt - 1)]_vars

\* C30: the attempt counter goes back to zero only in a step that leaves
\* the session authenticated, when a credential is configured.
C30_ResetOnlyWhenAuthenticated ==
  [][(reconnectAttempts > 0 /\ reconnectAttempts' = 0)
       => (jwt => isAuthenticated')]_vars

\* the events that count as the event of the channel of a notification of
\* the execution-service client
Dispatched(message) ==
  IF message = "trades" THEN {"trades", "trade"} ELSE {"ticker"}

\* C31: a notification is emitted as the event of its channel and is not
\* delivered to a request waiter: here the listener that waits for the
\* response to the auth request.
C31_NotificationsDispatched ==
  [][\A m \in ExecNotifications :
       [event |-> "message", of |-> m] \in exec'.out =>
         /\ exec'.authListener = exec.authListener
         /\ \E e \in exec'.out : e.event \in Dispatched(m)]_vars

\* the bucket of a timestamp: the largest multiple of intervalMs that is
\* not after it
Bucket(timestamp) == timestamp - (timestamp % intervalMs)

\* C32: a trade for a symbol without open candle, or whose bucket is later
\* than the bucket of the open candle, appends the open candle (if any)
\* unchanged to the history, the oldest candle leaving a full history, and
\* opens a candle with openTime = bucket, open = high = low = close = price
\* and volume = size; a trade in the bucket of the open candle sets
\* high = max(high, price), low = min(low, price), close = price and adds
\* size to volume, and leaves the history alone.
C32_TradeOpensOrUpdates ==
  [][\A t \in Trades(intervalMs) :
       Processes(t) =>
         LET m == t.market
             cur == currentKline[m]
             price == parseFloat(t.price)
             size == parseFloat(t.size)
             appended == Append(klines[m], cur)
         IN IF cur = NoKline \/ Bucket(t.timestamp) > cur.openTime
              THEN /\ currentKline'[m].openTime = Bucket(t.timestamp)
                   /\ currentKline'[m].open = price
                   /\ currentKline'[m].high = price
                   /\ currentKline'[m].low = price
                   /\ currentKline'[m].close = price
                   /\ currentKline'[m].volume = size
                   /\ klines'[m] =
                        IF cur = NoKline THEN klines[m]
                        ELSE IF Len(appended) > maxKlines THEN Tail(appended)
                        ELSE appended
              ELSE Bucket(t.timestamp) = cur.openTime =>
                     /\ currentKline'[m].openTime = cur.openTime
                     /\ currentKline'[m].open = cur.open
                     /\ currentKline'[m].high = Max(cur.high, price)
                     /\ currentKline'[m].low = Min(cur.low, price)
                     /\ currentKline'[m].close = price
                     /\ currentKline'[m].volume = cur.volume + size
                     /\ klines'[m] = klines[m]]_vars

\* a trade that is not on the boundary of its bucket has closed the open
\* candle of its symbol and opened the next one, which a second trade of the
\* same bucket has then updated
C32_OpenedAndUpdated ==
  \E m \in KlineMarkets :
    /\ klines[m] # << >>
    /\ currentKline[m] # NoKline
    /\ currentKline[m].openTime = intervalMs
    /\ currentKline[m].volume = 2
    /\ Len(TapeOf(m)) >= 3
    /\ TapeOf(m)[Len(TapeOf(m))].timestamp = intervalMs + 1

\* the klines of a market, the open one last: what getKlines reports of
RowsOf(m) ==
  LET all == IF currentKline[m] # NoKline
               THEN Append(klines[m], currentKline[m]) ELSE klines[m]
  IN [i \in 1..Len(all) |-> Row(all[i])]

\* C33: getKlines(symbol, limit) returns the candles of the symbol from
\* oldest to newest, the open candle last, at most limit of them (at most
\* maxKlines without limit), and those are the most recent ones;
\* getKlineCount(symbol) is the number of closed candles plus one for the
\* open candle.
C33_HistoryOrderedAndLimited ==
  [][/\ klineOut'.call = "getKlines" =>
          LET rows == klineOut'.rows
              all == RowsOf(klineOut'.market)
              most == IF klineOut'.limit.given THEN klineOut'.limit.n
                      ELSE maxKlines
          IN /\ Len(rows) = Min(most, Len(all))
             /\ \A i \in 1..Len(rows) :
                  rows[i] = all[Len(all) - Len(rows) + i]
             /\ \A i \in 1..(Len(rows) - 1) : rows[i][1] < rows[i + 1][1]
     /\ klineOut'.call = "getKlineCount" =>
          klineOut'.count = Len(RowsOf(klineOut'.market))]_vars

\* the transports of the execution-service client that are connecting or
\* open
ExecTransports ==
  exec.orphans + (IF exec.sock \in {"connecting", "open"} THEN 1 ELSE 0)

\* the transports of websocket-client.ts that are connecting or open
Transports == {s \in Slots : sockets[s].state \in {"connecting", "open"}}

\* C34: a session never holds more than one transport that is open or
\* connecting.
C34_OneTransport == Cardinality(Transports) <= 1

\* The same for the execution-service client, whose connect() has no guard
\* (fails under SpecExec as well).
ExecOneTransport == ExecTransports <= 1

\* C35: at most one reconnect timer is pending at any time: a failed
\* connection attempt schedules one reconnect and counts once, however many
\* of its failures (close, connection timeout, rejected authentication) the
\* client sees.
C35_OneReconnectTimer == exec.timers <= 1

\* The same for websocket-client.ts (fails under SpecWs as well).
WsOneReconnectTimer == reconnectTimers <= 1

\* a position_closed event for the market m is emitted in this step
EmitsClosed(m) ==
  \E i \in 1..Len(emits') :
    emits'[i].event = "position_closed" /\ emits'[i].market = m

\* C36: one position_closed event per closure: the event is emitted only in
\* the step that takes the position out of the live set, so neither the
\* later of the close-order response and the size-0 update of the exchange,
\* nor a size-0 update for a symbol without local position, emits one.
C36_OneClosedEventPerClosure ==
  [][\A m \in Markets : EmitsClosed(m) => Removed(m)]_vars

\* the invocation r of closePosition, whose Position object the live set
\* does not hold any more, resumes with the success of its order
CompletesStale(r) ==
  /\ BagIn(r, calls)
  /\ r.owner.kind = "close"
  /\ ~r.owner.attached
  /\ CopiesIn(r, calls') < CopiesIn(r, calls)
  /\ \E i \in 1..Len(emits') :
       /\ emits'[i].event = "position_closed"
       /\ emits'[i].market = r.owner.market
       /\ emits'[i].reason = r.owner.reason

\* C37: the completion of a close order whose position has been removed
\* from the live set or replaced there in the meantime leaves the live set
\* alone: it does not delete the entry a later exchange update has put under
\* the symbol.
C37_StaleCompletionKeepsNewer ==
  [][\A r \in BagToSet(calls) :
       CompletesStale(r) => positions' = positions]_vars

\* start() of an agent that was not initialized returns successfully in
\* this step
StartReturns ==
  /\ life.pc = "initialize"
  /\ life'.pc = "idle"
  /\ life'.isInitialized

\* C38: when start() of an agent that was not initialized returns
\* successfully, the tick and scan timers are running and 'started' has been
\* emitted.
C38_StartStartsTimers ==
  [][StartReturns =>
       /\ life'.tickInterval
       /\ life'.scanInterval
       /\ \E i \in 1..Len(emits') : emits'[i].event = "started"]_vars

\* the execution client's set of subscriptions gains the channel in this
\* step
ExecGains(channel) ==
  /\ channel \notin exec.subscribedChannels
  /\ channel \in exec'.subscribedChannels

\* C39: the subscription set gains an entry only in a step that receives a
\* message of the server (the success response to the subscribe request),
\* never in the step that sends the request.
C39_AddedOnlyOnResponse ==
  [][\A channel \in ExecChannels :
       ExecGains(channel) => \E o \in exec'.out : o.event = "message"]_vars

\* of the monitor's client: the subscription set gains an entry only in a
\* step that handles a success response
WsAddedOnlyOnResponse ==
  [][subscriptions' \subseteq subscriptions
       \/ (\E w \in BagToSet(waiters) :
             \/ subscribeSettles(w, "ok")
             \/ resubscribeSettles(w, "ok")
             \/ authenticateSettles(w, "ok"))
       \/ (\E s \in Slots, c \in Subscribable :
             lateResponse(s, subscriptionKey(c.channel, c.market), "ok"))]_vars

\* syncPositions has received a successful answer in this step
SyncSucceeds ==
  \E i \in 1..Len(emits') :
    emits'[i].event = "Syncing positions from exchange"

\* C40: after a successful syncPositions the live set holds exactly the
\* markets in which the exchange holds a position of non-zero size.
C40_SyncReconciles ==
  [][SyncSucceeds =>
       \A m \in Markets : positions'[m] # NoPosition <=> exch[m].size # 0]_vars

====
